---- MODULE Spec2Model ----
(***************************************************************************)
(* A model of the Interview Assistant backend (src/backend/app.py) and of  *)
(* its mode registry (src/configs/__init__.py): the conversation session   *)
(* store, the chat and first-question handlers, the evaluation pipeline    *)
(* (model call, sanitizer, JSON parse, validator, post-hoc defaults).      *)
(*                                                                         *)
(* A Python str the code trims, lower-cases or matches (a session id, a    *)
(* mode name, a message, a reply) is a sequence of one-character strings;  *)
(* a str the code only stores and compares (a prompt, a question, an API   *)
(* key) is an atomic TLA+ string.  An absent or empty str is <<>>.         *)
(***************************************************************************)
EXTENDS Integers, Sequences, FiniteSets, TLC

VARIABLES
    conversations,  \* app.py:244  dict (session_id, mode) -> record
    source,         \* the registry's backing definitions (one JSON file per mode)
    cache,          \* ConfigManager._cache
    storedKey,      \* the API key of the environment / .env file
    lastMode,       \* LAST_EVALUATION_MODE of the .env file
    req,            \* the request of the last operation, as its handler read it
    modelLog,       \* the model calls the last operation made
    resp            \* what the last operation returned to its caller

vars == <<conversations, source, cache, storedKey, lastMode, req, modelLog, resp>>

\* Python's None, and a field a JSON document does not have.
None == "<None>"
Missing == "<missing>"

(***************************************************************************)
(* Text helpers.                                                            *)
(***************************************************************************)

\* The whitespace the model's texts use (str.strip and the regex class \s).
WS == {" ", "\n"}

RECURSIVE LStrip(_)
LStrip(s) == IF s # <<>> /\ Head(s) \in WS THEN LStrip(Tail(s)) ELSE s

RECURSIVE RStrip(_)
RStrip(s) ==
    IF s # <<>> /\ s[Len(s)] \in WS THEN RStrip(SubSeq(s, 1, Len(s) - 1)) ELSE s

\* str.strip()
Strip(s) == RStrip(LStrip(s))

\* str.lower(), on the letters the model's texts use.
LowerChar(c) ==
    CASE c = "T" -> "t"
      [] c = "O" -> "o"
      [] c = "E" -> "e"
      [] c = "F" -> "f"
      [] c = "L" -> "l"
      [] OTHER -> c

Lower(s) == [i \in 1..Len(s) |-> LowerChar(s[i])]

\* The mode names.
toefl == <<"t", "o", "e", "f", "l">>
ielts == <<"i", "e", "l", "t", "s">>
business == <<"b", "u", "s", "i", "n", "e", "s", "s">>
casual == <<"c", "a", "s", "u", "a", "l">>
runtime == <<"r", "u", "n", "t", "i", "m", "e">>

(***************************************************************************)
(* The built-in mode table and the constants of app.py.                    *)
(***************************************************************************)

\* MODE_CONFIG (app.py:146-224): the keys, and per key the entries the
\* handlers read.  A rubric text is an atomic string.
MODE_CONFIG == {toefl, ielts, business, casual}

ModeEntry(mode) ==
    CASE mode = toefl ->
           [system |-> "TOEFL_SYSTEM", overall_scale |-> <<"0", "-", "3", "0">>,
            criterion_structure |-> "toefl criteria", question_max |-> 4]
      [] mode = ielts ->
           [system |-> "IELTS_SYSTEM",
            overall_scale |-> <<"B", "a", "n", "d", " ", "0", "-", "9">>,
            criterion_structure |-> "ielts criteria", question_max |-> 9]
      [] mode = business ->
           [system |-> "BUSINESS_SYSTEM", overall_scale |-> <<"0", "-", "1", "0", "0">>,
            criterion_structure |-> "business criteria", question_max |-> 100]
      [] mode = casual ->
           [system |-> "CASUAL_SYSTEM", overall_scale |-> <<"0", "-", "1", "0", "0">>,
            criterion_structure |-> "casual criteria", question_max |-> 100]

MAX_QA_PAIRS == 5

\* The mode keys that have a backing definition (ConfigManager._config_files).
RegistryModes == {toefl, ielts, runtime}

\* sorted() on the mode names.
ModeOrder == <<business, casual, ielts, runtime, toefl>>

RECURSIVE SortedFrom(_, _)
SortedFrom(S, i) ==
    IF i > Len(ModeOrder) THEN <<>>
    ELSE (IF ModeOrder[i] \in S THEN <<ModeOrder[i]>> ELSE <<>>)
         \o SortedFrom(S, i + 1)

Sorted(S) == SortedFrom(S, 1)

\* VALID_MODES and DEFAULT_MODE (app.py:225-231) as computed at import over
\* a registry that has the backing files `files`.
ValidModesOf(files) ==
    IF MODE_CONFIG \cap files # {}
    THEN Sorted(MODE_CONFIG \cap files)
    ELSE Sorted(MODE_CONFIG)

DefaultModeOf(files) ==
    IF \E i \in 1..Len(ValidModesOf(files)) : ValidModesOf(files)[i] = toefl
    THEN toefl
    ELSE ValidModesOf(files)[1]

VALID_MODES == ValidModesOf(RegistryModes)

DEFAULT_MODE == DefaultModeOf(RegistryModes)

(***************************************************************************)
(* The mode registry.  A definition is the parsed JSON document of a mode;  *)
(* a field the document lacks is Missing, the optional evaluation section   *)
(* is <<>> when absent and <<cfg>> when present.                           *)
(***************************************************************************)

GoodQuestions ==
    << [part |-> "Part 1", prompts |-> <<"Q1", "Q2">>],
       [part |-> "Part 2", prompts |-> <<"Q3">>] >>

HoleQuestions ==
    << [part |-> "Part 1", prompts |-> <<"Q1">>],
       [part |-> "Part 2", prompts |-> <<>>] >>

EvalSection ==
    [system_prompt |-> "J1", overall_scale |-> <<"1", "-", "3">>,
     criterion_template |-> "clarity"]

DefFull ==
    [system_prompt |-> "P1", questions |-> GoodQuestions,
     evaluation_prompt |-> "E1", evaluation |-> <<EvalSection>>]

DefNoEval ==
    [system_prompt |-> "P2", questions |-> GoodQuestions,
     evaluation_prompt |-> "E1", evaluation |-> <<>>]

DefHole ==
    [system_prompt |-> Missing, questions |-> HoleQuestions,
     evaluation_prompt |-> Missing, evaluation |-> <<EvalSection>>]

Defs == {DefFull, DefNoEval, DefHole}

\* A definition whose question bank has no group.
DefNoQuestions ==
    [system_prompt |-> "P3", questions |-> <<>>,
     evaluation_prompt |-> "E1", evaluation |-> <<>>]

\* The definitions a registry file can hold.
RegistryDefs == Defs \cup {DefNoQuestions}

NotLoaded == [system_prompt |-> "<not loaded>", questions |-> <<>>,
              evaluation_prompt |-> Missing, evaluation |-> <<>>]

\* A backing file json.load cannot parse (or open): it has no definition.
Unparsable == [system_prompt |-> "<unparsable>", questions |-> <<>>,
               evaluation_prompt |-> Missing, evaluation |-> <<>>]

\* The outcome of a call: a value, or the exception it raised.
Ok(v) == [ok |-> TRUE, val |-> v, exc |-> None]
Raise(e) == [ok |-> FALSE, val |-> None, exc |-> e]

\* ConfigManager._load_config: whether the call opens the backing file.
opens_source(c, mode) ==
    Lower(mode) \in RegistryModes /\ c[Lower(mode)] = NotLoaded

\* _load_config with the cache test left out: the file is read at each call.
cache_after_reload(c, mode) ==
    IF Lower(mode) \in RegistryModes /\ source[Lower(mode)] # Unparsable
    THEN [c EXCEPT ![Lower(mode)] = source[Lower(mode)]]
    ELSE c

\* ConfigManager._load_config: the cache once the mode has been accessed.
\* json.load raises before the assignment to the cache.
cache_after_load(c, mode) ==
    IF opens_source(c, mode) /\ source[Lower(mode)] # Unparsable
    THEN [c EXCEPT ![Lower(mode)] = source[Lower(mode)]]
    ELSE c

\* ConfigManager._load_config: the definition returned, or the ValueError of
\* an unknown key, or the error json.load raised.
load_config(c, mode) ==
    IF Lower(mode) \notin RegistryModes THEN Raise("ValueError")
    ELSE IF cache_after_load(c, mode)[Lower(mode)] = NotLoaded
    THEN Raise("JSONDecodeError")
    ELSE Ok(cache_after_load(c, mode)[Lower(mode)])

\* ConfigManager.get_system_prompt
get_system_prompt(c, mode) ==
    LET config == load_config(c, mode)
    IN IF ~config.ok THEN config
       ELSE IF config.val.system_prompt = Missing THEN Raise("ValueError")
       ELSE Ok(config.val.system_prompt)

\* ConfigManager.get_evaluation_prompt
get_evaluation_prompt(c, mode) ==
    LET config == load_config(c, mode)
    IN IF ~config.ok THEN config
       ELSE IF config.val.evaluation_prompt = Missing THEN Raise("ValueError")
       ELSE Ok(config.val.evaluation_prompt)

\* ConfigManager.has_evaluation_config (on a mode that has a definition)
has_evaluation_config(c, mode) ==
    LET config == load_config(c, mode)
    IN config.ok /\ config.val.evaluation # <<>>

\* ConfigManager.has_evaluation_config as a call: the answer, or the error
\* _load_config raised.
has_evaluation_config_call(c, mode) ==
    LET config == load_config(c, mode)
    IN IF ~config.ok THEN config
       ELSE Ok(config.val.evaluation # <<>>)

\* ConfigManager.get_config
get_config(c, mode) == load_config(c, mode)

\* A variant of get_random_question that always draws from the first group.
get_random_question_first_part(c, mode) ==
    LET config == load_config(c, mode)
    IN IF ~config.ok THEN {config}
       ELSE LET question_sets == config.val.questions
            IN IF question_sets = <<>> THEN {Raise("ValueError")}
               ELSE LET selected_part == question_sets[1]
                        prompts == selected_part.prompts
                    IN IF prompts = <<>> THEN {Raise("ValueError")}
                       ELSE { Ok([part |-> selected_part.part,
                                  prompt |-> prompts[j]])
                              : j \in 1..Len(prompts) }

\* ConfigManager.get_random_question: every result the two random.choice
\* draws can give, ValueError included.
get_random_question(c, mode) ==
    LET config == load_config(c, mode)
    IN IF ~config.ok THEN {config}
       ELSE LET question_sets == config.val.questions
            IN IF question_sets = <<>> THEN {Raise("ValueError")}
               ELSE UNION { LET selected_part == question_sets[i]
                                prompts == selected_part.prompts
                            IN IF prompts = <<>> THEN {Raise("ValueError")}
                               ELSE { Ok([part |-> selected_part.part,
                                          prompt |-> prompts[j]])
                                      : j \in 1..Len(prompts) }
                            : i \in 1..Len(question_sets) }

(***************************************************************************)
(* The external model call: messages.create either raises or returns a      *)
(* list of content blocks.                                                  *)
(***************************************************************************)

Block(type, text) == [type |-> type, text |-> text]

\* "".join(getattr(block, "text", "") for block in content
\*         if getattr(block, "type", "") == "text")
RECURSIVE JoinText(_)
JoinText(blocks) ==
    IF blocks = <<>> THEN <<>>
    ELSE (IF Head(blocks).type = "text" THEN Head(blocks).text ELSE <<>>)
         \o JoinText(Tail(blocks))

ModelFailures == {Raise("AuthenticationError"), Raise("APIConnectionError")}

ChatReplies ==
    { <<Block("tool_use", <<"x">>), Block("text", <<" ">>)>>,
      <<Block("tool_use", <<"x">>), Block("text", <<"r", "\n">>)>> }

ChatOutcomes == ModelFailures \cup {Ok(b) : b \in ChatReplies}

(***************************************************************************)
(* Conversation helpers (app.py:514-533).                                   *)
(***************************************************************************)

\* A variant of the key that tells sessions apart but not modes.
conversation_key_by_session(session_id, mode) == <<session_id, toefl>>

conversation_key(session_id, mode) == <<session_id, mode>>

\* A variant of reset_conversation that carries the key's earlier history over.
reset_conversation_keep(mode, prompt) ==
    LET key == <<req'.session_id, mode>>
    IN [mode |-> mode, system_prompt |-> prompt,
        history |-> IF key \in DOMAIN conversations
                    THEN conversations[key].history ELSE <<>>,
        pending_question |-> None]

\* The record _reset_conversation stores.
reset_conversation(mode, prompt) ==
    [mode |-> mode, system_prompt |-> prompt, history |-> <<>>,
     pending_question |-> None]

Turn(role, content) == [role |-> role, content |-> content]

\* len([msg for msg in history if msg["role"] == "user"])
user_count(history) ==
    Cardinality({i \in 1..Len(history) : history[i].role = "user"})

\* A variant of the limit test that lets one more turn in.
limit_reached_strict(history) == user_count(history) > MAX_QA_PAIRS

\* chat's limit test (app.py:562-563).
limit_reached(history) == user_count(history) >= MAX_QA_PAIRS

\* A variant of the turn content that never labels.
user_content_raw(pending_question, message) == <<message>>

\* chat's turn content (app.py:576-582): the labelled pair when a question is
\* pending, the raw message otherwise.
user_content(pending_question, message) ==
    IF pending_question # None
    THEN <<"Interviewer question: ", pending_question,
           "\nCandidate answer: ", message>>
    ELSE <<message>>

\* A variant of remaining_pairs that counts every turn, not the user turns.
remaining_pairs_all_turns(history) ==
    IF MAX_QA_PAIRS - Len(history) > 0 THEN MAX_QA_PAIRS - Len(history) ELSE 0

\* max(0, MAX_QA_PAIRS - user_count)  (app.py:607-610)
remaining_pairs(history) ==
    IF MAX_QA_PAIRS - user_count(history) > 0
    THEN MAX_QA_PAIRS - user_count(history)
    ELSE 0

\* _get_last_mode (app.py:375-380)
get_last_mode == IF lastMode \in MODE_CONFIG THEN lastMode ELSE DEFAULT_MODE

(***************************************************************************)
(* Responses.  kind "ok" and "error" are JSON bodies the handler returned; *)
(* kind "exception" is an exception that left the handler.                 *)
(***************************************************************************)

Resp(op, status, kind, body) ==
    [op |-> op, status |-> status, kind |-> kind, body |-> body]

\* A variant of the early return that runs after the record was reset.
RejectAfterReset(error) ==
    /\ resp' = Resp(req'.op, 400, "error", [error |-> error])
    /\ modelLog' = <<>>
    /\ conversations' =
          (conversation_key(req'.session_id, req'.mode)
               :> reset_conversation(req'.mode, "P1")) @@ conversations
    /\ UNCHANGED <<source, cache, storedKey, lastMode>>

\* A handler's early return of jsonify({"error": ...}), 400.
Reject(error) ==
    /\ resp' = Resp(req'.op, 400, "error", [error |-> error])
    /\ modelLog' = <<>>
    /\ UNCHANGED <<conversations, source, cache, storedKey, lastMode>>

(***************************************************************************)
(* Requests.                                                                *)
(***************************************************************************)

\* The requests the model sends: <<session_id, mode, message, api_key>> as the
\* caller wrote them.  The well-formed ones, each with one field at fault, and
\* one with every field at fault.
TOEFL == <<"T", "O", "E", "F", "L">>

ChatRequests ==
    { <<<<" ", "s">>, <<>>, <<"m", " ">>, "k">>,
      <<<<" ", "s">>, TOEFL, <<"m", " ">>, "k">>,
      <<<<" ", "s">>, casual, <<"m", " ">>, "k">>,
      <<<<" ">>, TOEFL, <<"m", " ">>, "k">>,
      <<<<" ", "s">>, runtime, <<"m", " ">>, "k">>,
      <<<<" ", "s">>, TOEFL, <<" ">>, "k">>,
      <<<<" ", "s">>, TOEFL, <<"m", " ">>, None>>,
      <<<<>>, runtime, <<>>, None>> }

FirstQuestionRequests == {<<r[1], r[2]>> : r \in ChatRequests}

\* /api/get-first-question (app.py:625-653)
get_first_question(sid, md) ==
    LET session_id == Strip(sid)
        mode == Lower(IF md # <<>> THEN md ELSE DEFAULT_MODE)
        key == conversation_key(session_id, mode)
    IN /\ req' = [op |-> "get_first_question", session_id |-> session_id,
                  mode |-> mode, message |-> <<>>, api_key |-> None,
                  transcript |-> None]
       /\ IF session_id = <<>> THEN Reject("session_id gerekli")
          ELSE IF mode \notin MODE_CONFIG THEN Reject("Gecersiz mod")
          ELSE \E question \in get_random_question(cache, mode) :
            LET cache1 == cache_after_load(cache, mode)
                prompt == get_system_prompt(cache1, mode)
            IN /\ modelLog' = <<>>
               /\ cache' = cache1
               /\ UNCHANGED <<source, storedKey, lastMode>>
               /\ IF ~question.ok
                  THEN /\ resp' = Resp("get_first_question", 500, "exception",
                                       [exception |-> question.exc])
                       /\ UNCHANGED conversations
                  ELSE IF ~prompt.ok
                  THEN /\ resp' = Resp("get_first_question", 500, "exception",
                                       [exception |-> prompt.exc])
                       /\ UNCHANGED conversations
                  ELSE /\ conversations' =
                             (key :> [reset_conversation(mode, prompt.val)
                                        EXCEPT !.pending_question = question.val.prompt])
                             @@ conversations
                       /\ resp' = Resp("get_first_question", 200, "ok",
                                       [session_id |-> session_id,
                                        mode |-> mode,
                                        question |-> question.val.prompt,
                                        part |-> question.val.part,
                                        remaining_pairs |-> MAX_QA_PAIRS])

FirstQuestion == \E r \in FirstQuestionRequests : get_first_question(r[1], r[2])

\* A variant of the model call that reads the persona prompt from the
\* registry at each call.
ModelCallReread(system, history, outcome) ==
    [raised |-> outcome.exc,
     reply |-> outcome.val,
     system |-> IF get_system_prompt(cache, req'.mode).ok
                THEN get_system_prompt(cache, req'.mode).val
                ELSE system,
     messages |-> [i \in 1..Len(history) |->
                     [role |-> history[i].role, content |-> history[i].content]]]

\* A variant of the model call that sends the caller's own turn only.
ModelCallLastTurn(system, history, outcome) ==
    [raised |-> outcome.exc,
     reply |-> outcome.val,
     system |-> system,
     messages |-> <<[role |-> history[Len(history)].role,
                     content |-> history[Len(history)].content]>>]

\* The arguments of one messages.create call.
ModelCall(system, history, outcome) ==
    [raised |-> outcome.exc,
     reply |-> outcome.val,
     system |-> system,
     messages |-> [i \in 1..Len(history) |->
                     [role |-> history[i].role, content |-> history[i].content]]]

\* /api/chat once the request is read (app.py:551-622).  outcome is what
\* messages.create does when the handler reaches it.
chat_handle(session_id, mode, message, api_key) ==
    LET key == conversation_key(session_id, mode)
    IN IF session_id = <<>> THEN Reject("session_id gerekli")
       ELSE IF mode \notin MODE_CONFIG THEN Reject("Gecersiz mod")
       ELSE IF message = <<>> THEN Reject("Mesaj bos olamaz")
       ELSE IF api_key = None THEN Reject("API key gerekli")
       ELSE
       LET create == key \notin DOMAIN conversations
           prompt == get_system_prompt(cache, mode)
       IN IF create /\ ~prompt.ok
          THEN \* _reset_conversation raised before the record was stored
               /\ resp' = Resp("chat", 500, "exception", [exception |-> prompt.exc])
               /\ modelLog' = <<>>
               /\ cache' = cache_after_load(cache, mode)
               /\ UNCHANGED <<conversations, source, storedKey, lastMode>>
          ELSE
          LET convs1 == IF create
                        THEN (key :> reset_conversation(mode, prompt.val))
                             @@ conversations
                        ELSE conversations
              conversation == convs1[key]
          IN /\ cache' = IF create THEN cache_after_load(cache, mode) ELSE cache
             /\ UNCHANGED <<source, storedKey, lastMode>>
             /\ IF limit_reached(conversation.history)
                THEN /\ conversations' = convs1
                     /\ modelLog' = <<>>
                     /\ resp' = Resp("chat", 200, "ok",
                                     [limit_reached |-> TRUE,
                                      remaining_pairs |-> 0,
                                      history |-> conversation.history])
                ELSE \E outcome \in ChatOutcomes :
                LET history1 == Append(conversation.history,
                                       Turn("user",
                                            user_content(conversation.pending_question,
                                                         message)))
                    reply_text == Strip(JoinText(outcome.val))
                    history2 == IF reply_text # <<>>
                                THEN Append(history1, Turn("assistant", reply_text))
                                ELSE history1
                IN /\ modelLog' = <<ModelCall(conversation.system_prompt, history1, outcome)>>
                   /\ IF ~outcome.ok
                      THEN /\ conversations' =
                                 [convs1 EXCEPT ![key].pending_question = None,
                                                ![key].history = history1]
                           /\ resp' = Resp("chat", 500, "exception",
                                           [exception |-> outcome.exc])
                      ELSE /\ conversations' =
                                 [convs1 EXCEPT ![key].pending_question = None,
                                                ![key].history = history2]
                           /\ resp' = Resp("chat", 200, "ok",
                                           [reply |-> reply_text,
                                            history |-> history2,
                                            remaining_pairs |-> remaining_pairs(history2),
                                            limit_reached |-> remaining_pairs(history2) = 0])

\* /api/chat (app.py:541-622)
chat(sid, md, msg, api) ==
    LET session_id == Strip(sid)
        mode == Lower(IF md # <<>> THEN md ELSE get_last_mode)
        message == Strip(msg)
        api_key == IF api # None THEN api ELSE storedKey
    IN /\ req' = [op |-> "chat", session_id |-> session_id, mode |-> mode,
                  message |-> message, api_key |-> api_key, transcript |-> None]
       /\ chat_handle(session_id, mode, message, api_key)

Chat ==
    \E r \in ChatRequests : chat(r[1], r[2], r[3], r[4])

(***************************************************************************)
(* Response sanitation (app.py:409-430).  A text is a sequence of           *)
(* characters; an element longer than one character stands for a run of     *)
(* characters that neither begins nor ends with whitespace, a fence         *)
(* character or a label character (a JSON object, array or string).         *)
(***************************************************************************)

\* The two fences.  "^" stands for the backtick, which a TLA+ string cannot hold.
BACKTICKS == <<"^", "^", "^">>
TILDES == <<"~", "~", "~">>

\* FENCE_LABEL_PATTERN [a-z0-9_+\-] under re.IGNORECASE, on the model's characters.
LabelChars == {"j", "J", "1", "_", "+", "-"}

StartsWith(s, f) == Len(s) >= Len(f) /\ SubSeq(s, 1, Len(f)) = f
EndsWith(s, f) == Len(s) >= Len(f) /\ SubSeq(s, Len(s) - Len(f) + 1, Len(s)) = f

RECURSIVE DropWhile(_, _)
DropWhile(C, s) == IF s # <<>> /\ Head(s) \in C THEN DropWhile(C, Tail(s)) ELSE s

\* A variant of the prefix removal that leaves the label in place.
strip_prefix_unlabelled(s, fence) ==
    IF StartsWith(s, fence)
    THEN DropWhile(WS, SubSeq(s, Len(fence) + 1, Len(s)))
    ELSE s

\* prefix_re.sub("", s, count=1) with prefix_re = ^fence[label]*\s*
strip_prefix(s, fence) ==
    IF StartsWith(s, fence)
    THEN DropWhile(WS, DropWhile(LabelChars, SubSeq(s, Len(fence) + 1, Len(s))))
    ELSE s

\* suffix_re.sub("", s, count=1) with suffix_re = \s*fence$ ; $ also matches
\* before a newline that ends the text.
strip_suffix(s, fence) ==
    IF EndsWith(s, fence)
    THEN RStrip(SubSeq(s, 1, Len(s) - Len(fence)))
    ELSE IF s # <<>> /\ s[Len(s)] = "\n" /\ EndsWith(SubSeq(s, 1, Len(s) - 1), fence)
    THEN RStrip(SubSeq(s, 1, Len(s) - 1 - Len(fence))) \o <<"\n">>
    ELSE s

\* One pass of the loop over the two fences.
strip_fence(s, fence) == strip_suffix(strip_prefix(s, fence), fence)

\* _sanitize_evaluation_text
sanitize_evaluation_text(text) ==
    LET sanitized == Strip(text)
    IN IF sanitized = <<>> THEN sanitized
       ELSE Strip(strip_fence(strip_fence(sanitized, BACKTICKS), TILDES))

(***************************************************************************)
(* JSON values, as json.loads returns them.                                 *)
(***************************************************************************)

JNull == [t |-> "null"]
JBool(b) == [t |-> "bool", v |-> b]
JNum(n) == [t |-> "num", v |-> n]
JStr(s) == [t |-> "str", v |-> s]
JList(s) == [t |-> "list", v |-> s]
JMap(f) == [t |-> "map", v |-> f]

\* A dict with no key.
EmptyMap == <<>>

\* bool(value)
Truthy(x) ==
    CASE x.t = "null" -> FALSE
      [] x.t = "bool" -> x.v
      [] x.t = "num" -> x.v # 0
      [] x.t = "map" -> DOMAIN x.v # {}
      [] OTHER -> x.v # <<>>

\* dict.get(key): None when the key is absent.
Get(d, key) == IF key \in DOMAIN d THEN d[key] ELSE JNull

\* d[key] = value
Put(d, key, value) == (key :> value) @@ d

\* isinstance(item, dict)
IsMapping(x) == x.t = "map"

\* isinstance(entry, str) and entry.strip()
IsNonBlankStr(x) == x.t = "str" /\ Strip(x.v) # <<>>

\* [item for item in xs if isinstance(item, dict)]
KeepMappings(xs) == SelectSeq(xs, IsMapping)

\* A variant of the string filter that keeps blank strings.
KeepStrings(xs) == SelectSeq(xs, LAMBDA x : x.t = "str")

\* [entry for entry in xs if isinstance(entry, str) and entry.strip()]
KeepNonBlank(xs) == SelectSeq(xs, IsNonBlankStr)

(***************************************************************************)
(* validate_evaluation (app.py:433-506).  Each step takes the outcome so    *)
(* far, Ok(result) or the ValueError already raised, and gives the next.    *)
(***************************************************************************)

\* A variant of the mode step that leaves the letters' case alone.
validate_mode_as_is(r) ==
    IF ~r.ok THEN r
    ELSE IF "mode" \in DOMAIN r.val /\ Truthy(r.val["mode"])
              /\ r.val["mode"].t # "str"
    THEN Raise("ValueError")
    ELSE r

\* app.py:441-444
validate_mode(r) ==
    IF ~r.ok THEN r
    ELSE IF "mode" \in DOMAIN r.val /\ Truthy(r.val["mode"])
    THEN IF r.val["mode"].t # "str" THEN Raise("ValueError")
         ELSE Ok(Put(r.val, "mode", JStr(Lower(r.val["mode"].v))))
    ELSE r

\* A variant of _ensure_dict without the isinstance test.
ensure_dict_untyped(r, key) ==
    IF ~r.ok THEN r
    ELSE LET got == Get(r.val, key)
         IN Ok(Put(r.val, key, IF got = JNull THEN JMap(EmptyMap) ELSE got))

\* _ensure_dict (app.py:446-453)
ensure_dict(r, key) ==
    IF ~r.ok THEN r
    ELSE LET got == Get(r.val, key)
             value == IF got = JNull THEN JMap(EmptyMap) ELSE got
         IN IF value.t # "map" THEN Raise("ValueError")
            ELSE Ok(Put(r.val, key, value))

\* _ensure_list (app.py:455-462)
ensure_list(r, key) ==
    IF ~r.ok THEN r
    ELSE LET got == Get(r.val, key)
             value == IF got = JNull THEN JList(<<>>) ELSE got
         IN IF value.t # "list" THEN Raise("ValueError")
            ELSE Ok(Put(r.val, key, value))

\* app.py:470-478, on the lists _ensure_list stored
filter_lists(r) ==
    IF ~r.ok THEN r
    ELSE Ok(Put(Put(Put(r.val,
            "question_breakdown",
            JList(KeepMappings(r.val["question_breakdown"].v))),
            "strengths", JList(KeepNonBlank(r.val["strengths"].v))),
            "improvements", JList(KeepNonBlank(r.val["improvements"].v))))

\* examples.get(key) or []
example_list(examples, key) ==
    IF Truthy(Get(examples, key)) THEN Get(examples, key) ELSE JList(<<>>)

\* app.py:480-500
validate_examples(r) ==
    IF ~r.ok THEN r
    ELSE LET got == Get(r.val, "specific_examples")
             examples == IF got = JNull THEN JMap(EmptyMap) ELSE got
         IN IF examples.t # "map" THEN Raise("ValueError")
            ELSE LET good_examples == example_list(examples.v, "good")
                     needs_work_examples == example_list(examples.v, "needs_work")
                 IN IF good_examples.t # "list" \/ needs_work_examples.t # "list"
                    THEN Raise("ValueError")
                    ELSE Ok(Put(r.val, "specific_examples",
                            JMap(Put(Put(examples.v,
                                 "good", JList(KeepNonBlank(good_examples.v))),
                                 "needs_work",
                                 JList(KeepNonBlank(needs_work_examples.v))))))

\* app.py:502-504
validate_feedback(r) ==
    IF ~r.ok THEN r
    ELSE LET detailed_feedback == Get(r.val, "detailed_feedback")
         IN IF detailed_feedback # JNull /\ detailed_feedback.t # "str"
            THEN Raise("ValueError")
            ELSE r

\* validate_evaluation from result = dict(payload) to the assignment of
\* result["specific_examples"] (app.py:439-500), on a payload that is a dict.
validate_through_examples(payload) ==
    validate_examples(filter_lists(
        ensure_list(ensure_list(ensure_list(
            ensure_dict(ensure_dict(validate_mode(Ok(payload.v)),
                "criterion_scores"), "equivalent_scores"),
            "question_breakdown"), "strengths"), "improvements")))

\* The caller's object once validate_evaluation has returned or raised.
\* result is a shallow copy (app.py:439), so the dict under
\* specific_examples is the caller's own: the assignments to its good and
\* needs_work keys (492-499) are made in the caller's object.
argument_after_validation(payload) ==
    IF payload.t # "map" THEN payload
    ELSE IF /\ Get(payload.v, "specific_examples").t = "map"
            /\ validate_through_examples(payload).ok
    THEN JMap(Put(payload.v, "specific_examples",
                  validate_through_examples(payload).val["specific_examples"]))
    ELSE payload

\* validate_evaluation: Ok(the result dict) or Raise("ValueError").
validate_evaluation(payload) ==
    IF payload.t # "map" THEN Raise("ValueError")
    ELSE validate_feedback(validate_through_examples(payload))

(***************************************************************************)
(* json.loads on the documents the model's replies hold.  A document is one *)
(* element of the text; any other text raises JSONDecodeError.              *)
(***************************************************************************)

DocEmpty == "{}"
DocModeUpper == "{\"mode\":\"TOEFL\",\"overall_scale\":\"1-9\"}"
DocModeNull == "{\"mode\":null}"
DocScaleNumber == "{\"overall_scale\":5}"
DocStrengths == "{\"strengths\":[\"T\",1,\" \"]}"
DocBadScores == "{\"criterion_scores\":[]}"
DocBadExamples == "{\"strengths\":[\"T\"],\"specific_examples\":[]}"
DocList == "[]"
DocNumber == "1"

Docs == {DocEmpty, DocModeUpper, DocModeNull, DocScaleNumber, DocStrengths,
         DocBadScores, DocBadExamples, DocList, DocNumber}

DocValue(d) ==
    CASE d = DocEmpty -> JMap(EmptyMap)
      [] d = DocModeUpper ->
           JMap([mode |-> JStr(<<"T", "O", "E", "F", "L">>),
                 overall_scale |-> JStr(<<"1", "-", "9">>)])
      [] d = DocModeNull -> JMap([mode |-> JNull])
      [] d = DocScaleNumber -> JMap([overall_scale |-> JNum(5)])
      [] d = DocStrengths ->
           JMap([strengths |-> JList(<<JStr(<<"T">>), JNum(1), JStr(<<" ">>)>>)])
      [] d = DocBadScores -> JMap([criterion_scores |-> JList(<<>>)])
      [] d = DocBadExamples ->
           JMap([strengths |-> JList(<<JStr(<<"T">>)>>),
                 specific_examples |-> JList(<<>>)])
      [] d = DocList -> JList(<<>>)
      [] d = DocNumber -> JNum(1)

\* json.loads(text): surrounding whitespace is skipped, the rest must be
\* exactly one document.
json_loads(text) ==
    LET t == Strip(text)
    IN IF Len(t) = 1 /\ t[1] \in Docs THEN Ok(DocValue(t[1]))
       ELSE Raise("JSONDecodeError")

(***************************************************************************)
(* /api/evaluate (app.py:736-798) and create_evaluation_prompt.             *)
(***************************************************************************)

\* create_evaluation_prompt (app.py:256-317): the two prompts, or the
\* ValueError of get_evaluation_prompt.  The user prompt is the record of
\* the texts the f-string interpolates.
create_evaluation_prompt(c, transcript, mode) ==
    LET mode_key == IF mode \in MODE_CONFIG THEN mode ELSE DEFAULT_MODE
        config == ModeEntry(mode_key)
        evaluation_directive == get_evaluation_prompt(c, mode_key)
    IN IF ~evaluation_directive.ok THEN evaluation_directive
       ELSE Ok([system |-> config.system,
                user |-> [evaluation_directive |-> evaluation_directive.val,
                          transcript |-> transcript,
                          mode_key |-> mode_key,
                          overall_scale |-> config.overall_scale,
                          criterion_structure |-> config.criterion_structure,
                          question_max |-> config.question_max]])

\* dict.setdefault(key, value)
SetDefault(d, key, value) == IF key \in DOMAIN d THEN d ELSE Put(d, key, value)

\* A variant of evaluate_reply that returns the parsed object when the
\* validator rejects it.
evaluate_reply_unvalidated(blocks, evaluation_mode) ==
    LET evaluation_text == JoinText(blocks)
        evaluation == json_loads(sanitize_evaluation_text(evaluation_text))
        validated == validate_evaluation(evaluation.val)
    IN IF evaluation_text = <<>> \/ ~evaluation.ok \/ evaluation.val.t # "map"
       THEN Resp("evaluate", 500, "error", [error |-> "ValueError"])
       ELSE Resp("evaluate", 200, "ok",
                 SetDefault(SetDefault(
                     IF validated.ok THEN validated.val ELSE evaluation.val.v,
                     "mode", JStr(evaluation_mode)),
                     "overall_scale", JStr(ModeEntry(evaluation_mode).overall_scale)))

\* evaluate from the model's reply on (app.py:762-798): the response.
evaluate_reply(blocks, evaluation_mode) ==
    LET evaluation_text == JoinText(blocks)
        sanitized_text == sanitize_evaluation_text(evaluation_text)
        evaluation == json_loads(sanitized_text)
        validated == validate_evaluation(evaluation.val)
    IN IF evaluation_text = <<>>
       THEN Resp("evaluate", 500, "error", [error |-> "Claude'dan gecerli yanit alinamadi"])
       ELSE IF ~evaluation.ok
       THEN Resp("evaluate", 500, "error", [error |-> "Claude yaniti JSON formatinda degil"])
       ELSE IF ~validated.ok
       THEN Resp("evaluate", 500, "error", [error |-> validated.exc])
       ELSE Resp("evaluate", 200, "ok",
                 SetDefault(SetDefault(validated.val,
                     "mode", JStr(evaluation_mode)),
                     "overall_scale", JStr(ModeEntry(evaluation_mode).overall_scale)))

\* The except clauses of evaluate (app.py:793-798) on a failed model call.
evaluate_failure(exc) ==
    IF exc = "AuthenticationError"
    THEN Resp("evaluate", 401, "error", [error |-> "Gecersiz API Key"])
    ELSE Resp("evaluate", 500, "error", [error |-> exc])

\* The longest run of one label or whitespace character the model's replies
\* put between a fence and the document.
MaxFill == 1

\* The runs of one character of C, of length at most n.
Fills(C, n) == {[i \in 1..k |-> c] : c \in C, k \in 0..n}

\* Every sequence over C of length at most n.
SeqsUpTo(C, n) == UNION {[1..k -> C] : k \in 0..n}

Fences == {BACKTICKS, TILDES}

Leads ==
    {<<>>, <<" ">> \o BACKTICKS}
    \cup {f \o g : f \in Fences, g \in Fills({" ", "\n", "j"}, MaxFill)}

Trails ==
    {<<>>, BACKTICKS \o <<"\n">>}
    \cup {g \o f : g \in Fills({" ", "\n"}, MaxFill), f \in Fences}

Bodies ==
    {<<d>> : d \in Docs} \cup {<<>>, <<"j">>, <<DocEmpty, " ", DocEmpty>>}

\* The texts the model replies with: one document in every wrapping, and
\* every body bare and in a labelled fence.
ReplyTexts ==
    {l \o <<DocEmpty>> \o t : l \in Leads, t \in Trails}
    \cup Bodies
    \cup {BACKTICKS \o <<"j", "\n">> \o b \o <<"\n">> \o BACKTICKS : b \in Bodies}

\* A reply is the text in two text blocks around a block of another type.
EvalReplies ==
    {<<Block("tool_use", <<"x">>)>>}
    \cup { <<Block("text", IF t = <<>> THEN t ELSE <<Head(t)>>),
             Block("tool_use", <<"x">>),
             Block("text", IF t = <<>> THEN t ELSE Tail(t))>> : t \in ReplyTexts }

EvalOutcomes == ModelFailures \cup {Ok(b) : b \in EvalReplies}

\* <<transcript, evaluation_mode, api_key>> as the caller wrote them.
EvalRequests ==
    { <<"T1", <<>>, "k">>,
      <<"T1", casual, "k">>,
      <<"T1", runtime, "k">>,
      <<None, TOEFL, "k">>,
      <<"", TOEFL, "k">>,
      <<"T1", TOEFL, None>>,
      <<None, runtime, None>> }

\* /api/evaluate once the request is read (app.py:746-798)
evaluate_handle(api_key, transcript, evaluation_mode) ==
    IF api_key = None \/ transcript \in {None, ""}
    THEN Reject("API key ve transcript gerekli")
    ELSE IF evaluation_mode \notin MODE_CONFIG
    THEN Reject("Gecersiz degerlendirme modu")
    ELSE
    LET prompts == create_evaluation_prompt(cache, transcript, evaluation_mode)
    IN /\ cache' = cache_after_load(cache, evaluation_mode)
       /\ UNCHANGED <<conversations, source, storedKey>>
       /\ IF ~prompts.ok
          THEN /\ resp' = Resp("evaluate", 500, "error", [error |-> prompts.exc])
               /\ modelLog' = <<>>
               /\ UNCHANGED lastMode
          ELSE \E outcome \in EvalOutcomes :
               LET result == IF outcome.ok
                             THEN evaluate_reply(outcome.val, evaluation_mode)
                             ELSE evaluate_failure(outcome.exc)
               IN /\ modelLog' = <<ModelCall(prompts.val.system,
                                             <<Turn("user", prompts.val.user)>>,
                                             outcome)>>
                  /\ resp' = result
                  \* _save_last_mode, on success only
                  /\ lastMode' = IF result.kind = "ok" THEN evaluation_mode
                                 ELSE lastMode

\* /api/evaluate (app.py:736-798)
evaluate(tr, md, api) ==
    LET api_key == IF api # None THEN api ELSE storedKey
        evaluation_mode == Lower(IF md # <<>> THEN md ELSE get_last_mode)
    IN /\ req' = [op |-> "evaluate", session_id |-> <<>>, mode |-> evaluation_mode,
                  message |-> <<>>, api_key |-> api_key, transcript |-> tr]
       /\ evaluate_handle(api_key, tr, evaluation_mode)

Evaluate == \E r \in EvalRequests : evaluate(r[1], r[2], r[3])

(***************************************************************************)
(* The environment: a mode's backing definition is edited, or the registry  *)
(* object is replaced by a new ConfigManager (an empty cache).              *)
(***************************************************************************)

\* No operation is in progress or has just returned.
NoReq == [op |-> "none", session_id |-> <<>>, mode |-> <<>>, message |-> <<>>,
          api_key |-> None, transcript |-> None]
NoResp == Resp("none", 0, "none", [error |-> None])

\* A step of the environment is no operation: it has no request or response.
Idle == req' = NoReq /\ modelLog' = <<>> /\ resp' = NoResp

EditableModes == {toefl}

EditSource ==
    \E m \in EditableModes, d \in Defs :
        /\ source[m] # d
        /\ source' = [source EXCEPT ![m] = d]
        /\ Idle
        /\ UNCHANGED <<conversations, cache, storedKey, lastMode>>

ReplaceRegistry ==
    /\ cache' = [m \in RegistryModes |-> NotLoaded]
    /\ cache' # cache
    /\ Idle
    /\ UNCHANGED <<conversations, source, storedKey, lastMode>>

(***************************************************************************)
(* The service: no session, an empty cache, no request served yet.          *)
(***************************************************************************)

Init ==
    /\ conversations = <<>>
    /\ source = [m \in RegistryModes |-> DefFull]
    /\ cache = [m \in RegistryModes |-> NotLoaded]
    /\ storedKey \in {None, "k"}
    /\ lastMode = <<>>
    /\ req = NoReq
    /\ modelLog = <<>>
    /\ resp = NoResp

Next == FirstQuestion \/ Chat \/ EditSource \/ ReplaceRegistry

\* The session manager under a changing registry.
Spec == Init /\ [][Next]_vars

NextEval == Evaluate \/ EditSource \/ ReplaceRegistry

\* The evaluation pipeline under a changing registry.
SpecEval == Init /\ [][NextEval]_vars

(***************************************************************************)
(* validate_evaluation on its own: a caller holds a parsed JSON value and   *)
(* calls the validator once (src/tests/test_validation.py).                 *)
(***************************************************************************)

\* The longest list a generated payload holds.
MaxEntries == 1

\* A key the payload does not have.
Absent == [t |-> "absent"]

\* The dict of the given fields, the Absent ones left out.
Fields(all) == [k \in {k \in DOMAIN all : all[k] # Absent} |-> all[k]]

\* A generated JSON value is described by <<kind, entry kinds>>; the entry
\* kinds are those of a list's items.
EntryKinds == {"num", "str", "blank", "map"}

EntryOf(kind) ==
    CASE kind = "num" -> JNum(1)
      [] kind = "str" -> JStr(<<"T">>)
      [] kind = "blank" -> JStr(<<" ">>)
      [] kind = "map" -> JMap(EmptyMap)

ListKinds == {<<"list", ks>> : ks \in SeqsUpTo(EntryKinds, MaxEntries)}

ScalarKinds == {<<k, <<>>>> : k \in {"null", "empty map", "map", "str", "zero", "false"}}

AbsentKind == <<"absent", <<>>>>

ValueOf(d) ==
    CASE d[1] = "absent" -> Absent
      [] d[1] = "null" -> JNull
      [] d[1] = "empty map" -> JMap(EmptyMap)
      [] d[1] = "map" -> JMap([fluency |-> JNum(3)])
      [] d[1] = "str" -> JStr(<<"T">>)
      [] d[1] = "zero" -> JNum(0)
      [] d[1] = "false" -> JBool(FALSE)
      [] d[1] = "list" -> JList([j \in 1..Len(d[2]) |-> EntryOf(d[2][j])])
      [] d[1] = "empty str" -> JStr(<<>>)
      [] d[1] = "one" -> JNum(1)
      [] d[1] = "true" -> JBool(TRUE)
      [] d[1] = "upper" -> JStr(<<"T", "O", "E", "F", "L">>)
      [] d[1] = "mixed" -> JStr(<<"t", "O", "e", "f", "l">>)
      [] d[1] = "lower" -> JStr(<<"t", "o", "e", "f", "l">>)

\* What a payload holds under criterion_scores or equivalent_scores.
ScoreKinds == {AbsentKind} \cup ScalarKinds \cup ListKinds

\* What a payload holds under strengths.
StrengthKinds == {AbsentKind, <<"null", <<>>>>, <<"empty map", <<>>>>} \cup ListKinds

\* The payload that is not an object, and the object of three optional fields.
ScalarPayload(d) == ValueOf(d)
ObjectPayload(cs, es, st) ==
    JMap(Fields([criterion_scores |-> ValueOf(cs),
                 equivalent_scores |-> ValueOf(es),
                 strengths |-> ValueOf(st)]))

\* What a payload holds under question_breakdown, strengths or improvements.
ListFieldKinds == ScoreKinds

\* The object of the three list fields.
ListPayload(qb, st, im) ==
    JMap(Fields([question_breakdown |-> ValueOf(qb),
                 strengths |-> ValueOf(st),
                 improvements |-> ValueOf(im)]))

\* What specific_examples holds under good or needs_work: the falsy values of
\* every type among them.
SubFieldKinds ==
    ScoreKinds \cup {<<"empty str", <<>>>>, <<"one", <<>>>>}

\* The object whose specific_examples is not an object, and the one whose
\* specific_examples holds the two sub-fields.
ExamplesPayload(ex) == JMap(Fields([specific_examples |-> ValueOf(ex)]))
ExamplesObjectPayload(good, needs_work) ==
    JMap([specific_examples |->
              JMap(Fields([good |-> ValueOf(good),
                           needs_work |-> ValueOf(needs_work)]))])

\* What a payload holds under mode.
ModeKinds ==
    ScoreKinds
    \cup {<<k, <<>>>> : k \in {"empty str", "one", "true", "upper", "mixed", "lower"}}

\* The object of mode and criterion_scores.
ModePayload(md, cs) ==
    JMap(Fields([mode |-> ValueOf(md), criterion_scores |-> ValueOf(cs)]))

\* The call validate_evaluation(payload), not yet returned: payload is the
\* value passed, argument the caller's object as it is now.
ValidateCall(payload) ==
    [op |-> "validate", session_id |-> <<>>, mode |-> <<>>, message |-> <<>>,
     api_key |-> None, transcript |-> None, payload |-> payload,
     argument |-> payload]

InitValidate ==
    /\ conversations = <<>>
    /\ source = [m \in RegistryModes |-> DefFull]
    /\ cache = [m \in RegistryModes |-> NotLoaded]
    /\ storedKey = None
    /\ lastMode = <<>>
    /\ \/ \E d \in ScalarKinds \cup ListKinds :
              req = ValidateCall(ScalarPayload(d))
       \/ \E cs \in ScoreKinds, es \in ScoreKinds, st \in StrengthKinds :
              req = ValidateCall(ObjectPayload(cs, es, st))
       \/ \E qb \in ListFieldKinds, st \in ListFieldKinds, im \in ListFieldKinds :
              req = ValidateCall(ListPayload(qb, st, im))
       \/ \E ex \in ScoreKinds : req = ValidateCall(ExamplesPayload(ex))
       \/ \E good \in SubFieldKinds, needs_work \in SubFieldKinds :
              req = ValidateCall(ExamplesObjectPayload(good, needs_work))
       \/ \E md \in ModeKinds, cs \in ScoreKinds :
              req = ValidateCall(ModePayload(md, cs))
    /\ modelLog = <<>>
    /\ resp = NoResp

\* validate_evaluation returns its result or raises ValueError.
Validate ==
    /\ req.op = "validate"
    /\ resp = NoResp
    /\ LET validated == validate_evaluation(req.payload)
       IN resp' = IF validated.ok
                  THEN Resp("validate", 0, "ok", validated.val)
                  ELSE Resp("validate", 0, "exception", [exception |-> validated.exc])
    /\ req' = [req EXCEPT !.argument = argument_after_validation(req.payload)]
    /\ UNCHANGED <<conversations, source, cache, storedKey, lastMode, modelLog>>

NextValidate == Validate

\* The validator applied to every payload.
SpecValidate == InitValidate /\ [][NextValidate]_vars

(***************************************************************************)
(* _sanitize_evaluation_text on its own: a caller holds a text, sanitizes  *)
(* it, and sanitizes the result once more (src/tests/test_sanitizer.py).   *)
(***************************************************************************)

\* The most pieces a generated text is made of.
MaxTokens == 3

\* The pieces: the two fences, a lone fence character of each style,
\* whitespace, a label character and a JSON document.
Tokens == {BACKTICKS, TILDES, <<"^">>, <<"~">>, <<" ">>, <<"\n">>, <<"j">>, <<DocEmpty>>}

RECURSIVE Flatten(_)
Flatten(ts) == IF ts = <<>> THEN <<>> ELSE Head(ts) \o Flatten(Tail(ts))

\* Every text of at most MaxTokens pieces.
TokenTexts == {Flatten(ts) : ts \in SeqsUpTo(Tokens, MaxTokens)}

\* Bodies that hold no fence: documents, texts that begin with a label
\* character, texts with fewer than three fence characters in a row.
SanitizeBodies ==
    { <<>>, <<DocEmpty>>, <<" ", DocEmpty, "\n">>, <<"j">>, <<"1", DocEmpty>>,
      <<"j", " ", DocEmpty>>, <<"^">>, <<"~", "~">>, <<DocEmpty, " ", "^", "^">> }

Labels == {<<>>, <<"j">>, <<"J", "1">>}

\* The non-empty whitespace runs.
Gaps == Fills(WS, MaxFill) \ {<<>>}

\* The call _sanitize_evaluation_text(text), not yet returned.  form and body
\* say how the text was built: "free" (of pieces), "bare" (the body in
\* whitespace), "fenced" (fence, label, whitespace, body, whitespace, fence)
\* or "inline" (fence, body, fence); pass counts the applications so far.
SanitizeCall(text, form, body) ==
    [op |-> "sanitize", session_id |-> <<>>, mode |-> <<>>, message |-> <<>>,
     api_key |-> None, transcript |-> None,
     text |-> text, form |-> form, body |-> body, pass |-> 1]

InitSanitize ==
    /\ conversations = <<>>
    /\ source = [m \in RegistryModes |-> DefFull]
    /\ cache = [m \in RegistryModes |-> NotLoaded]
    /\ storedKey = None
    /\ lastMode = <<>>
    /\ \/ \E text \in TokenTexts : req = SanitizeCall(text, "free", <<>>)
       \/ \E body \in SanitizeBodies, l \in Fills(WS, MaxFill), r \in Fills(WS, MaxFill) :
              req = SanitizeCall(l \o body \o r, "bare", body)
       \/ \E body \in SanitizeBodies, fence \in Fences, label \in Labels,
             l \in Gaps, r \in Gaps :
              req = SanitizeCall(fence \o label \o l \o body \o r \o fence,
                                 "fenced", body)
       \/ \E body \in SanitizeBodies, fence \in Fences :
              req = SanitizeCall(fence \o body \o fence, "inline", body)
    /\ modelLog = <<>>
    /\ resp = NoResp

\* What _sanitize_evaluation_text returns.
Sanitized(text) == Resp("sanitize", 0, "ok", [text |-> sanitize_evaluation_text(text)])

\* The first application.
Sanitize ==
    /\ req.op = "sanitize"
    /\ resp = NoResp
    /\ resp' = Sanitized(req.text)
    /\ UNCHANGED <<conversations, source, cache, storedKey, lastMode, req, modelLog>>

\* The application to the first one's result.
SanitizeAgain ==
    /\ req.op = "sanitize"
    /\ req.pass = 1
    /\ resp # NoResp
    /\ req' = [req EXCEPT !.text = resp.body.text, !.pass = 2]
    /\ resp' = Sanitized(resp.body.text)
    /\ UNCHANGED <<conversations, source, cache, storedKey, lastMode, modelLog>>

NextSanitize == Sanitize \/ SanitizeAgain

\* The sanitizer applied to every text, twice.
SpecSanitize == InitSanitize /\ [][NextSanitize]_vars

(***************************************************************************)
(* The registry on its own (configs/__init__.py): calls of its accessors in *)
(* sequence, on known and unknown keys, while the backing files are          *)
(* rewritten or damaged between calls.                                       *)
(***************************************************************************)

RegistryKeys == {toefl, runtime, casual, TOEFL}

RegistryCall(op, mode) ==
    [op |-> op, session_id |-> <<>>, mode |-> mode, message |-> <<>>,
     api_key |-> None, transcript |-> None]

\* One call of an accessor: what it returned or raised, whether it opened
\* the backing file, and the cache it leaves.
Answered(op, mode, out) ==
    /\ req' = RegistryCall(op, mode)
    /\ resp' = IF out.ok
               THEN Resp(op, 0, "ok",
                         [value |-> out.val, read |-> opens_source(cache, mode)])
               ELSE Resp(op, 0, "exception",
                         [exception |-> out.exc,
                          read |-> opens_source(cache, mode)])
    /\ cache' = cache_after_load(cache, mode)
    /\ modelLog' = <<>>
    /\ UNCHANGED <<conversations, source, storedKey, lastMode>>

GetConfig ==
    \E mode \in RegistryKeys :
        Answered("get_config", mode, get_config(cache, mode))

GetSystemPrompt ==
    \E mode \in RegistryKeys :
        Answered("get_system_prompt", mode, get_system_prompt(cache, mode))

GetEvaluationPrompt ==
    \E mode \in RegistryKeys :
        Answered("get_evaluation_prompt", mode,
                 get_evaluation_prompt(cache, mode))

HasEvaluationConfig ==
    \E mode \in RegistryKeys :
        Answered("has_evaluation_config", mode,
                 has_evaluation_config_call(cache, mode))

GetRandomQuestion ==
    \E mode \in RegistryKeys :
        \E out \in get_random_question(cache, mode) :
            Answered("get_random_question", mode, out)

\* A backing file is truncated or removed.
CorruptSource ==
    \E m \in RegistryModes :
        /\ source[m] # Unparsable
        /\ source' = [source EXCEPT ![m] = Unparsable]
        /\ Idle
        /\ UNCHANGED <<conversations, cache, storedKey, lastMode>>

\* A fresh ConfigManager over files of any content.
InitRegistry ==
    /\ conversations = <<>>
    /\ source \in [RegistryModes -> RegistryDefs]
    /\ cache = [m \in RegistryModes |-> NotLoaded]
    /\ storedKey = None
    /\ lastMode = <<>>
    /\ req = NoReq
    /\ modelLog = <<>>
    /\ resp = NoResp

NextRegistry ==
    \/ GetConfig
    \/ GetSystemPrompt
    \/ GetEvaluationPrompt
    \/ HasEvaluationConfig
    \/ GetRandomQuestion
    \/ EditSource
    \/ CorruptSource

\* One ConfigManager in sequential use.
SpecRegistry == InitRegistry /\ [][NextRegistry]_vars

(***************************************************************************)
(* The mode list (app.py:225-231, 656-674): the service is imported over a  *)
(* configuration, a set of backing files of which some have an evaluation   *)
(* section, and then asked for its modes.                                   *)
(***************************************************************************)

ModeNames == MODE_CONFIG \cup {runtime}

ModesCall(op, files, evaluation) ==
    [op |-> op, session_id |-> <<>>, mode |-> <<>>, message |-> <<>>,
     api_key |-> None, transcript |-> None,
     files |-> files, evaluation |-> evaluation]

InitModes ==
    /\ conversations = <<>>
    /\ source = [m \in RegistryModes |-> DefFull]
    /\ cache = [m \in RegistryModes |-> NotLoaded]
    /\ storedKey = None
    /\ lastMode = <<>>
    /\ \E files \in SUBSET ModeNames : \E evaluation \in SUBSET files :
           req = ModesCall("import", files, evaluation)
    /\ modelLog = <<>>
    /\ resp = NoResp

\* Importing app.py: ConfigManager() raises when the directory has no file
\* (configs/__init__.py:28-31); otherwise the two constants are computed.
ImportApp ==
    /\ req.op = "import"
    /\ resp = NoResp
    /\ resp' = IF req.files = {}
               THEN Resp("import", 0, "exception",
                         [exception |-> "FileNotFoundError"])
               ELSE Resp("import", 0, "ok",
                         [VALID_MODES |-> ValidModesOf(req.files),
                          DEFAULT_MODE |-> DefaultModeOf(req.files)])
    /\ UNCHANGED <<conversations, source, cache, storedKey, lastMode, req,
                   modelLog>>

\* GET /api/modes: one entry per mode of VALID_MODES, each read from the
\* registry; a mode the registry has no file for raises ValueError.
get_modes(valid_modes, files) ==
    IF \E i \in 1..Len(valid_modes) : valid_modes[i] \notin files
    THEN Resp("get_modes", 500, "exception", [exception |-> "ValueError"])
    ELSE Resp("get_modes", 200, "ok", [modes |-> valid_modes])

GetModes ==
    /\ req.op = "import"
    /\ resp.op = "import"
    /\ resp.kind = "ok"
    /\ req' = [req EXCEPT !.op = "get_modes"]
    /\ resp' = get_modes(resp.body.VALID_MODES, req.files)
    /\ UNCHANGED <<conversations, source, cache, storedKey, lastMode,
                   modelLog>>

NextModes == ImportApp \/ GetModes

\* The service imported over any configuration, then asked for its modes.
SpecModes == InitModes /\ [][NextModes]_vars

(***************************************************************************)
(* create_evaluation_prompt called on its own (app.py:256-317), for the     *)
(* modes of the registry and of the built-in table, while the backing files *)
(* are rewritten between calls.                                             *)
(***************************************************************************)

PromptModes == RegistryModes \cup {business, TOEFL}

Transcripts == {"T1", "T2"}

CreateEvaluationPrompt ==
    \E mode \in PromptModes, transcript \in Transcripts :
        LET prompts == create_evaluation_prompt(cache, transcript, mode)
            mode_key == IF mode \in MODE_CONFIG THEN mode ELSE DEFAULT_MODE
        IN /\ req' = [RegistryCall("create_evaluation_prompt", mode)
                        EXCEPT !.transcript = transcript]
           /\ resp' = IF prompts.ok
                      THEN Resp("create_evaluation_prompt", 0, "ok", prompts.val)
                      ELSE Resp("create_evaluation_prompt", 0, "exception",
                                [exception |-> prompts.exc])
           /\ cache' = cache_after_load(cache, mode_key)
           /\ modelLog' = <<>>
           /\ UNCHANGED <<conversations, source, storedKey, lastMode>>

NextPrompt == CreateEvaluationPrompt \/ EditSource

\* The prompt builder over a registry of any content.
SpecPrompt == InitRegistry /\ [][NextPrompt]_vars

(***************************************************************************)
(* The session store under several keys: one session id under two modes,    *)
(* served in any order.                                                      *)
(***************************************************************************)

KeyModes == {toefl, ielts}

\* <<session_id, mode, message, api_key>>
KeyRequests == {<<<<"s">>, m, <<"m">>, "k">> : m \in KeyModes}

KeyFirstQuestion == \E r \in KeyRequests : get_first_question(r[1], r[2])

\* The model answers with text or the connection fails.
KeyOutcome ==
    modelLog' # <<>>
    => /\ modelLog'[1].raised \in {None, "APIConnectionError"}
       /\ modelLog'[1].raised = None
             => Strip(JoinText(modelLog'[1].reply)) # <<>>

KeyChat == \E r \in KeyRequests : chat(r[1], r[2], r[3], r[4]) /\ KeyOutcome

InitKeys ==
    /\ conversations = <<>>
    /\ source = [m \in RegistryModes |-> DefFull]
    /\ cache = [m \in RegistryModes |-> NotLoaded]
    /\ storedKey = None
    /\ lastMode = <<>>
    /\ req = NoReq
    /\ modelLog = <<>>
    /\ resp = NoResp

NextKeys == KeyFirstQuestion \/ KeyChat

\* The session manager serving two keys of one session.
SpecKeys == InitKeys /\ [][NextKeys]_vars

(***************************************************************************)
(* Concurrent calls of ConfigManager._load_config (configs/__init__.py:     *)
(* 34-48).  No lock is taken: a thread can be suspended between any two of  *)
(* its statements, and reading the file releases the interpreter lock.  In  *)
(* the specifications of concurrent calls req and resp hold one frame and   *)
(* one response per thread; a frame is the call's arguments, its position   *)
(* and its local variables.                                                 *)
(***************************************************************************)

Threads == {1, 2}

LoadKeys == {toefl, TOEFL, casual}

LoadFrame(mode) ==
    [op |-> "load_config", mode |-> mode, pc |-> "check", data |-> NotLoaded]

InitLoad ==
    /\ conversations = <<>>
    /\ source = [m \in RegistryModes |-> DefFull]
    /\ cache = [m \in RegistryModes |-> NotLoaded]
    /\ storedKey = None
    /\ lastMode = <<>>
    /\ req \in [Threads -> {LoadFrame(mode) : mode \in LoadKeys}]
    /\ modelLog = <<>>
    /\ resp = [t \in Threads |-> NoResp]

\* if key not in self._cache, and the lookup of the key's file (35-43)
LoadCheck(t) ==
    LET key == Lower(req[t].mode)
    IN /\ req[t].pc = "check"
       /\ IF key \in RegistryModes /\ cache[key] # NotLoaded
          THEN /\ req' = [req EXCEPT ![t].pc = "return"]
               /\ UNCHANGED resp
          ELSE IF key \notin RegistryModes
          THEN /\ req' = [req EXCEPT ![t].pc = "done"]
               /\ resp' = [resp EXCEPT ![t] =
                              Resp("load_config", 0, "exception",
                                   [exception |-> "ValueError"])]
          ELSE /\ req' = [req EXCEPT ![t].pc = "read"]
               /\ UNCHANGED resp
       /\ UNCHANGED <<conversations, source, cache, storedKey, lastMode, modelLog>>

\* data = json.load(file) (45-46)
LoadRead(t) ==
    /\ req[t].pc = "read"
    /\ req' = [req EXCEPT ![t].pc = "store",
                          ![t].data = source[Lower(req[t].mode)]]
    /\ UNCHANGED <<conversations, source, cache, storedKey, lastMode, modelLog,
                   resp>>

\* self._cache[key] = data (47)
LoadStore(t) ==
    /\ req[t].pc = "store"
    /\ cache' = [cache EXCEPT ![Lower(req[t].mode)] = req[t].data]
    /\ req' = [req EXCEPT ![t].pc = "return"]
    /\ UNCHANGED <<conversations, source, storedKey, lastMode, modelLog, resp>>

\* return self._cache[key] (48)
LoadReturn(t) ==
    /\ req[t].pc = "return"
    /\ req' = [req EXCEPT ![t].pc = "done"]
    /\ resp' = [resp EXCEPT ![t] =
                   Resp("load_config", 0, "ok",
                        [value |-> cache[Lower(req[t].mode)]])]
    /\ UNCHANGED <<conversations, source, cache, storedKey, lastMode, modelLog>>

\* A backing file is rewritten while calls are in progress.
RewriteSource ==
    \E m \in EditableModes, d \in Defs :
        /\ source[m] # d
        /\ source' = [source EXCEPT ![m] = d]
        /\ UNCHANGED <<conversations, cache, storedKey, lastMode, req, modelLog,
                       resp>>

NextLoad ==
    \/ \E t \in Threads : LoadCheck(t)
    \/ \E t \in Threads : LoadRead(t)
    \/ \E t \in Threads : LoadStore(t)
    \/ \E t \in Threads : LoadReturn(t)
    \/ RewriteSource

\* Two threads in _load_config.
SpecLoad == InitLoad /\ [][NextLoad]_vars

(***************************************************************************)
(* Concurrent chat requests (app.py:541-622) on session records that exist. *)
(* The handler takes no lock: each thread runs the statements of chat in    *)
(* order and can be suspended between any two of them; the model call is a  *)
(* network request, during which other threads run.  Each thread serves one *)
(* request; the two requests are for one key or for two keys.               *)
(***************************************************************************)

\* The answered pairs the records hold when the requests arrive.
PriorPairs == {0, 3, 4}

PriorHistory(n) ==
    [i \in 1..(2 * n) |->
        IF i % 2 = 1 THEN Turn("user", <<<<"p">>>>) ELSE Turn("assistant", <<"r">>)]

\* The record of a key: as a first-question request left it, or after n
\* answered chats.
PriorRecord(mode, n) ==
    [mode |-> mode, system_prompt |-> "P1", history |-> PriorHistory(n),
     pending_question |-> IF n = 0 THEN "Q1" ELSE None]

ThreadFrame(mode, message) ==
    [op |-> "chat", session_id |-> <<"s">>, mode |-> mode, message |-> message,
     api_key |-> "k", pc |-> "enter", pending_question |-> None,
     reply_text |-> <<>>, call |-> 0]

FrameKey(t) == conversation_key(req[t].session_id, req[t].mode)

InitThreads ==
    /\ \E n \in PriorPairs :
          conversations = [key \in {conversation_key(<<"s">>, m) : m \in KeyModes}
                             |-> PriorRecord(key[2], n)]
    /\ source = [m \in RegistryModes |-> DefFull]
    /\ cache = [m \in RegistryModes |-> DefFull]
    /\ storedKey = None
    /\ lastMode = <<>>
    /\ \E m \in KeyModes :
          req = [t \in Threads |->
                   IF t = 1 THEN ThreadFrame(toefl, <<"a">>)
                   ELSE ThreadFrame(m, <<"b">>)]
    /\ modelLog = <<>>
    /\ resp = [t \in Threads |-> NoResp]

\* The request is read, the record fetched and the limit tested (545-573).
ThreadEnter(t) ==
    LET conversation == conversations[FrameKey(t)]
    IN /\ req[t].pc = "enter"
       /\ IF limit_reached(conversation.history)
          THEN /\ req' = [req EXCEPT ![t].pc = "done"]
               /\ resp' = [resp EXCEPT ![t] =
                              Resp("chat", 200, "ok",
                                   [limit_reached |-> TRUE,
                                    remaining_pairs |-> 0,
                                    history |-> conversation.history])]
          ELSE /\ req' = [req EXCEPT ![t].pc = "pop"]
               /\ UNCHANGED resp
       /\ UNCHANGED <<conversations, source, cache, storedKey, lastMode, modelLog>>

\* pending_question = conversation.pop("pending_question", None) (575)
ThreadPop(t) ==
    /\ req[t].pc = "pop"
    /\ req' = [req EXCEPT ![t].pc = "append",
                          ![t].pending_question =
                              conversations[FrameKey(t)].pending_question]
    /\ conversations' = [conversations EXCEPT ![FrameKey(t)].pending_question = None]
    /\ UNCHANGED <<source, cache, storedKey, lastMode, modelLog, resp>>

\* conversation["history"].append({"role": "user", ...}) (576-584)
ThreadAppendUser(t) ==
    /\ req[t].pc = "append"
    /\ conversations' =
          [conversations EXCEPT ![FrameKey(t)].history =
              Append(@, Turn("user", user_content(req[t].pending_question,
                                                  req[t].message)))]
    /\ req' = [req EXCEPT ![t].pc = "call"]
    /\ UNCHANGED <<source, cache, storedKey, lastMode, modelLog, resp>>

\* client.messages.create(system=..., messages=[the history as it is now])
\* (586-596); an exception leaves the handler.
ThreadCall(t) ==
    /\ req[t].pc = "call"
    /\ \E outcome \in ChatOutcomes :
          /\ modelLog' = Append(modelLog,
                                ModelCall(conversations[FrameKey(t)].system_prompt,
                                          conversations[FrameKey(t)].history,
                                          outcome))
          /\ IF outcome.ok
             THEN /\ req' = [req EXCEPT ![t].pc = "reply",
                                        ![t].call = Len(modelLog) + 1,
                                        ![t].reply_text =
                                            Strip(JoinText(outcome.val))]
                  /\ UNCHANGED resp
             ELSE /\ req' = [req EXCEPT ![t].pc = "done",
                                        ![t].call = Len(modelLog) + 1]
                  /\ resp' = [resp EXCEPT ![t] =
                                 Resp("chat", 500, "exception",
                                      [exception |-> outcome.exc])]
    /\ UNCHANGED <<conversations, source, cache, storedKey, lastMode>>

\* if reply_text: conversation["history"].append(assistant turn) (598-605)
ThreadAppendReply(t) ==
    /\ req[t].pc = "reply"
    /\ conversations' =
          IF req[t].reply_text # <<>>
          THEN [conversations EXCEPT ![FrameKey(t)].history =
                   Append(@, Turn("assistant", req[t].reply_text))]
          ELSE conversations
    /\ req' = [req EXCEPT ![t].pc = "respond"]
    /\ UNCHANGED <<source, cache, storedKey, lastMode, modelLog, resp>>

\* The response is built from the history as it is now (607-622).
ThreadRespond(t) ==
    LET history == conversations[FrameKey(t)].history
    IN /\ req[t].pc = "respond"
       /\ req' = [req EXCEPT ![t].pc = "done"]
       /\ resp' = [resp EXCEPT ![t] =
                      Resp("chat", 200, "ok",
                           [reply |-> req[t].reply_text,
                            history |-> history,
                            remaining_pairs |-> remaining_pairs(history),
                            limit_reached |-> remaining_pairs(history) = 0])]
       /\ UNCHANGED <<conversations, source, cache, storedKey, lastMode, modelLog>>

NextThreads ==
    \/ \E t \in Threads : ThreadEnter(t)
    \/ \E t \in Threads : ThreadPop(t)
    \/ \E t \in Threads : ThreadAppendUser(t)
    \/ \E t \in Threads : ThreadCall(t)
    \/ \E t \in Threads : ThreadAppendReply(t)
    \/ \E t \in Threads : ThreadRespond(t)

\* Two chat requests served by two threads.
SpecThreads == InitThreads /\ [][NextThreads]_vars

(***************************************************************************)
(* Properties of the session manager.  A step of chat or of                 *)
(* get_first_question is recognised by the request it leaves in req'; the   *)
(* unprimed variables are the state the handler found.                      *)
(***************************************************************************)

\* The number of user turns in a history.
UserTurns(history) == Len(SelectSeq(history, LAMBDA turn : turn.role = "user"))

\* The key a request addresses.
ReqKey(r) == <<r.session_id, r.mode>>

\* A chat request that passes the four input tests.
ValidChat(r) ==
    /\ r.op = "chat"
    /\ r.session_id # <<>>
    /\ r.mode \in MODE_CONFIG
    /\ r.message # <<>>
    /\ r.api_key # None

\* The history and the pending question a request's key holds, those of a
\* fresh record when the key has none.
HistoryOf(convs, key) == IF key \in DOMAIN convs THEN convs[key].history ELSE <<>>
PendingOf(convs, key) ==
    IF key \in DOMAIN convs THEN convs[key].pending_question ELSE None

\* The response of chat's short circuit, and of a chat that got a reply.
IsLimitResponse(r) ==
    /\ r.op = "chat"
    /\ r.kind = "ok"
    /\ DOMAIN r.body = {"limit_reached", "remaining_pairs", "history"}
IsReplyResponse(r) ==
    /\ r.op = "chat"
    /\ r.kind = "ok"
    /\ "reply" \in DOMAIN r.body

UserTurnsCapped ==
    \A key \in DOMAIN conversations : UserTurns(conversations[key].history) <= 5

LimitShortCircuit ==
    (ValidChat(req') /\ UserTurns(HistoryOf(conversations, ReqKey(req'))) >= 5)
    => /\ resp' = Resp("chat", 200, "ok",
                       [limit_reached |-> TRUE, remaining_pairs |-> 0,
                        history |-> conversations[ReqKey(req')].history])
       /\ modelLog' = <<>>
       /\ conversations' = conversations

\* C1: whatever first-question and chat operations ran, failed model calls
\* and empty replies included, no session history holds more than 5 user
\* turns; and a chat with valid inputs on a session that already holds 5 user
\* turns answers limit_reached = true, remaining_pairs = 0 and the stored
\* history, calls no model and leaves every session record as it was.
C1_UserTurnCap == []UserTurnsCapped /\ [][LimitShortCircuit]_vars

\* The short circuit answered on a session none of whose five turns was replied to.
C1_Witness ==
    /\ IsLimitResponse(resp)
    /\ resp.body.limit_reached
    /\ modelLog = <<>>
    /\ Len(resp.body.history) = 5
    /\ conversations[ReqKey(req)].history = resp.body.history

RemainingAfterReply ==
    IsReplyResponse(resp')
    => LET u == UserTurns(HistoryOf(conversations, ReqKey(req'))) + 1
       IN /\ u <= 5
          /\ UserTurns(resp'.body.history) = u
          /\ resp'.body.remaining_pairs = 5 - u
          /\ resp'.body.limit_reached = (resp'.body.remaining_pairs = 0)

FirstQuestionStartsCount ==
    (req'.op = "get_first_question" /\ resp'.kind = "ok")
    => UserTurns(conversations'[ReqKey(req')].history) = 0

\* C2: a chat that is not short-circuited and whose model call succeeds
\* answers remaining_pairs = max(0, 5 - u), u being the user turns of the
\* history once this call's turn is appended (one more than the session held),
\* and limit_reached exactly when remaining_pairs = 0; a first-question
\* request starts the count at 0, so the k-th successful chat after it answers
\* 5 - k and the fifth answers 0 with limit_reached = true.
C2_RemainingPairs == [][RemainingAfterReply /\ FirstQuestionStartsCount]_vars

\* The fifth successful chat of a session.
C2_Witness ==
    /\ IsReplyResponse(resp)
    /\ resp.body.remaining_pairs = 0
    /\ resp.body.limit_reached
    /\ Len(resp.body.history) = 10

FirstQuestionResets ==
    (req'.op = "get_first_question" /\ resp'.kind = "ok")
    => LET key == ReqKey(req')
       IN /\ key \in DOMAIN conversations'
          /\ conversations'[key].history = <<>>
          /\ conversations'[key].pending_question = resp'.body.question
          /\ conversations'[key].system_prompt = cache'[req'.mode].system_prompt
          /\ conversations'[key].mode = req'.mode
          /\ \A other \in DOMAIN conversations \ {key} :
                 other \in DOMAIN conversations'
                 /\ conversations'[other] = conversations[other]

AcceptsBelowFive ==
    (ValidChat(req') /\ ReqKey(req') \in DOMAIN conversations
     /\ UserTurns(conversations[ReqKey(req')].history) < 5)
    => /\ modelLog' # <<>>
       /\ ~IsLimitResponse(resp')

\* C3: a successful first-question request leaves its key's record, whatever
\* the record held before, with an empty history, the returned question as
\* the pending question and the prompt the registry now gives for the mode as
\* the system prompt, and leaves every other record alone; a record below 5
\* user turns, such as one just reset, has its chat sent to the model.
C3_FirstQuestionResets == [][FirstQuestionResets /\ AcceptsBelowFive]_vars

\* A first question served from a definition edited since the service started.
C3_Witness ==
    /\ resp.op = "get_first_question"
    /\ resp.kind = "ok"
    /\ conversations[ReqKey(req)].system_prompt = "P2"
    /\ conversations[ReqKey(req)].pending_question = "Q3"
    /\ conversations[ReqKey(req)].history = <<>>

\* The labelled pair of a question and an answer.
Labelled(question, message) ==
    <<"Interviewer question: ", question, "\nCandidate answer: ", message>>
IsLabelled(turn) == turn.role = "user" /\ Len(turn.content) = 4

TurnContent ==
    (ValidChat(req') /\ modelLog' # <<>>)
    => LET key == ReqKey(req')
           before == HistoryOf(conversations, key)
           pending == PendingOf(conversations, key)
           after == conversations'[key].history
           n == Len(before) + 1
       IN /\ Len(after) >= n
          /\ SubSeq(after, 1, Len(before)) = before
          /\ after[n].role = "user"
          /\ after[n].content = IF pending # None
                                THEN Labelled(pending, req'.message)
                                ELSE <<req'.message>>
          /\ conversations'[key].pending_question = None
          /\ modelLog'[1].messages[n].content = after[n].content

ImplicitRecord ==
    (ValidChat(req') /\ ReqKey(req') \notin DOMAIN conversations
     /\ ReqKey(req') \in DOMAIN conversations')
    => /\ conversations'[ReqKey(req')].history[1].content = <<req'.message>>
       /\ conversations'[ReqKey(req')].system_prompt = cache'[req'.mode].system_prompt

OneQuestionPerSession ==
    \A key \in DOMAIN conversations :
        LET record == conversations[key]
        IN /\ \A i \in 1..Len(record.history) : IsLabelled(record.history[i]) => i = 1
           /\ record.pending_question # None => record.history = <<>>

\* C4: a chat that reaches the model appends one user turn whose content is
\* the labelled question/answer pair when the session had a pending question,
\* which it clears, and the raw message otherwise, a record created by this
\* chat included; so in every record only the first turn can carry a
\* question, and a pending question waits only on an empty history.
C4_TurnContent == []OneQuestionPerSession /\ [][TurnContent /\ ImplicitRecord]_vars

\* A session whose first answer carries the question and whose second does not.
C4_Witness ==
    \E key \in DOMAIN conversations :
        LET history == conversations[key].history
        IN /\ Len(history) >= 3
           /\ IsLabelled(history[1])
           /\ history[1].content[2] \in {"Q1", "Q2", "Q3"}
           /\ history[3].role = "user"
           /\ history[3].content = <<<<"m">>>>

\* The input tests of the two handlers, on the request as the handler read it.
InvalidFirstQuestion(r) ==
    r.op = "get_first_question" /\ (r.session_id = <<>> \/ r.mode \notin MODE_CONFIG)
InvalidChat(r) ==
    r.op = "chat" /\ (r.session_id = <<>> \/ r.mode \notin MODE_CONFIG
                      \/ r.message = <<>> \/ r.api_key = None)

InvalidInputRejected ==
    (InvalidFirstQuestion(req') \/ InvalidChat(req'))
    => /\ resp'.kind = "error"
       /\ resp'.status = 400
       /\ conversations' = conversations
       /\ modelLog' = <<>>

FailedFirstQuestion ==
    (req'.op = "get_first_question" /\ resp'.kind # "ok")
    => /\ conversations' = conversations
       /\ modelLog' = <<>>

FirstQuestionRemaining ==
    (req'.op = "get_first_question" /\ resp'.kind = "ok")
    => /\ ~InvalidFirstQuestion(req')
       /\ resp'.body.remaining_pairs = 5
       /\ modelLog' = <<>>

\* C5: a first-question request with an empty (trimmed) session id or a mode
\* that is not one of the service's modes, and a chat with an empty session
\* id, such a mode, an empty message or no API key, is answered with the
\* invalid-input error (400); in each of these failures, and when the
\* question selection raises, no session record is created, reset or changed
\* and no model call is made.  A successful first question reports
\* remaining_pairs = 5.
C5_InvalidInput ==
    [][InvalidInputRejected /\ FailedFirstQuestion /\ FirstQuestionRemaining]_vars

\* A chat with an empty message rejected while sessions exist.
C5_Witness ==
    /\ resp.op = "chat"
    /\ resp.status = 400
    /\ req.session_id # <<>>
    /\ req.mode \in MODE_CONFIG
    /\ req.message = <<>>
    /\ conversations # <<>>

\* C6: when the model call of chat fails, the caller gets one structured
\* error, the authentication error (401) when the credentials were rejected
\* and the transport error carrying the failure otherwise, never an exception
\* that left the handler; one model call was made.
C6_ModelFailureStructured ==
    (req.op = "chat" /\ modelLog # <<>> /\ modelLog[1].raised # None)
    => /\ Len(modelLog) = 1
       /\ resp.kind = "error"
       /\ IF modelLog[1].raised = "AuthenticationError"
          THEN resp.status = 401
          ELSE resp.status = 500 /\ resp.body = [error |-> modelLog[1].raised]

(***************************************************************************)
(* Properties of the evaluation pipeline.                                   *)
(***************************************************************************)

\* C7: an evaluate request without a transcript, without an API key, or for
\* a mode whose registry definition has no evaluation section is answered
\* with the invalid-input error (400) and no model call.
C7_EvaluateRejects ==
    (req.op = "evaluate"
     /\ (req.transcript \in {None, ""} \/ req.api_key = None
         \/ ~has_evaluation_config(cache, req.mode)))
    => /\ resp.status = 400
       /\ modelLog = <<>>

\* A validated payload: every collection field has its container type and
\* the lists hold only the entries the validator keeps.
WellFormed(body) ==
    /\ {"criterion_scores", "equivalent_scores", "question_breakdown",
        "strengths", "improvements", "specific_examples"} \subseteq DOMAIN body
    /\ body["criterion_scores"].t = "map"
    /\ body["equivalent_scores"].t = "map"
    /\ body["question_breakdown"].t = "list"
    /\ \A i \in 1..Len(body["question_breakdown"].v) :
           body["question_breakdown"].v[i].t = "map"
    /\ \A key \in {"strengths", "improvements"} :
           /\ body[key].t = "list"
           /\ \A i \in 1..Len(body[key].v) : IsNonBlankStr(body[key].v[i])
    /\ body["specific_examples"].t = "map"
    /\ \A key \in {"good", "needs_work"} :
           /\ key \in DOMAIN body["specific_examples"].v
           /\ body["specific_examples"].v[key].t = "list"

\* The text of the reply the last model call returned.
ReplyText == JoinText(modelLog[1].reply)
ParsedReply == json_loads(sanitize_evaluation_text(ReplyText))

\* The model call has returned and each later step has succeeded.
PipelinePassed ==
    /\ Len(modelLog) = 1
    /\ modelLog[1].raised = None
    /\ ReplyText # <<>>
    /\ ParsedReply.ok
    /\ validate_evaluation(ParsedReply.val).ok

\* C8: evaluate answers with a success payload only when the model replied
\* with a non-empty text, the sanitized text parsed as JSON and the validator
\* accepted the parsed value; the payload is then the validator's result of
\* the parsed sanitized reply, with the defaults added last.  When a step
\* fails the answer is an error that holds no part of the payload.
C8_AllOrNothing ==
    req.op = "evaluate"
    => /\ resp.kind = "ok"
          => /\ PipelinePassed
             /\ WellFormed(resp.body)
             /\ LET validated == validate_evaluation(ParsedReply.val).val
                IN /\ \A key \in DOMAIN validated : resp.body[key] = validated[key]
                   /\ DOMAIN resp.body = DOMAIN validated \cup {"mode", "overall_scale"}
       /\ (modelLog # <<>> /\ ~PipelinePassed)
          => /\ resp.kind = "error"
             /\ DOMAIN resp.body = {"error"}

\* A fenced reply whose list the validator filtered, returned as a payload.
C8_Witness ==
    /\ req.op = "evaluate"
    /\ resp.kind = "ok"
    /\ Head(ReplyText) = "^"
    /\ resp.body["strengths"] = JList(<<JStr(<<"T">>)>>)

\* C9: every success payload of evaluate has a mode that is a lower-case
\* string and an overall_scale that is a string.
C9_ModeAndScale ==
    (req.op = "evaluate" /\ resp.kind = "ok")
    => /\ resp.body["mode"].t = "str"
       /\ resp.body["mode"].v = Lower(resp.body["mode"].v)
       /\ resp.body["overall_scale"].t = "str"

(***************************************************************************)
(* Properties of the validator.                                             *)
(***************************************************************************)

ScoreFields == {"criterion_scores", "equivalent_scores"}

\* The call raised ValueError.
ValidationError(r) == r.kind = "exception" /\ r.body = [exception |-> "ValueError"]

\* C10: validate_evaluation raises its validation error when the input is
\* not a mapping, and when criterion_scores or equivalent_scores is present,
\* not null and not a mapping; a result it returns holds each of the two
\* fields that was absent or null as an empty mapping.
C10_ScoreFields ==
    (req.op = "validate" /\ resp.op = "validate")
    => LET payload == req.payload
       IN /\ payload.t # "map" => ValidationError(resp)
          /\ payload.t = "map"
             => /\ (\E key \in ScoreFields :
                        /\ key \in DOMAIN payload.v
                        /\ payload.v[key] # JNull
                        /\ payload.v[key].t # "map")
                    => ValidationError(resp)
                /\ resp.kind = "ok"
                    => \A key \in ScoreFields :
                           (key \notin DOMAIN payload.v \/ payload.v[key] = JNull)
                           => /\ key \in DOMAIN resp.body
                              /\ resp.body[key] = JMap(EmptyMap)

\* A payload without criterion_scores and with a null equivalent_scores, accepted.
C10_Witness ==
    /\ req.op = "validate"
    /\ resp.kind = "ok"
    /\ req.payload.t = "map"
    /\ "criterion_scores" \notin DOMAIN req.payload.v
    /\ "equivalent_scores" \in DOMAIN req.payload.v
    /\ req.payload.v["equivalent_scores"] = JNull
    /\ resp.body["criterion_scores"] = JMap(EmptyMap)
    /\ resp.body["equivalent_scores"] = JMap(EmptyMap)

\* The keys of the three list fields, and the entries the validator keeps
\* under each: mappings, or strings with a character that is not whitespace.
ListFields == {"question_breakdown", "strengths", "improvements"}

KeptEntry(key, x) ==
    IF key = "question_breakdown" THEN x.t = "map"
    ELSE x.t = "str" /\ \E i \in 1..Len(x.v) : x.v[i] \notin WS

\* The kept entries of a list, in the list's order.
RECURSIVE KeptEntries(_, _)
KeptEntries(key, xs) ==
    IF xs = <<>> THEN <<>>
    ELSE (IF KeptEntry(key, Head(xs)) THEN <<Head(xs)>> ELSE <<>>)
         \o KeptEntries(key, Tail(xs))

\* Two lists of scalars and mappings hold the same entries in the same order.
SameEntries(xs, ys) ==
    /\ Len(xs) = Len(ys)
    /\ \A i \in 1..Len(xs) : xs[i].t = ys[i].t /\ xs[i].v = ys[i].v

\* The list whose one entry is the string s.
IsListOfString(x, s) ==
    /\ x.t = "list"
    /\ Len(x.v) = 1
    /\ x.v[1].t = "str"
    /\ x.v[1].v = s

IsEmptyList(x) == x.t = "list" /\ x.v = <<>>

\* A field the payload lacks or holds as null.
AbsentOrNull(p, key) == key \notin DOMAIN p \/ p[key] = JNull

ExampleFields == {"good", "needs_work"}

\* C12: for specific_examples the validator gives an object with empty good
\* and needs_work lists when the field is absent or null and raises when it is
\* present and not an object; a sub-field good or needs_work gives the empty
\* list only when absent (or null, as for the top-level fields), makes the
\* validator raise when it holds any other value that is not a list, an empty
\* string, 0, false or an empty object included, and is otherwise filtered to
\* its non-blank strings in order.
C12_Examples ==
    (req.op = "validate" /\ resp.op = "validate" /\ req.payload.t = "map")
    => LET p == req.payload.v
           ex == p["specific_examples"]
       IN /\ AbsentOrNull(p, "specific_examples")
             => (resp.kind = "ok"
                 => /\ resp.body["specific_examples"].t = "map"
                    /\ DOMAIN resp.body["specific_examples"].v = ExampleFields
                    /\ \A key \in ExampleFields :
                           IsEmptyList(resp.body["specific_examples"].v[key]))
          /\ (~AbsentOrNull(p, "specific_examples") /\ ex.t # "map")
             => ValidationError(resp)
          /\ (~AbsentOrNull(p, "specific_examples") /\ ex.t = "map")
             => /\ (\E key \in ExampleFields :
                        ~AbsentOrNull(ex.v, key) /\ ex.v[key].t # "list")
                   => ValidationError(resp)
                /\ resp.kind = "ok"
                   => \A key \in ExampleFields :
                          /\ resp.body["specific_examples"].v[key].t = "list"
                          /\ SameEntries(resp.body["specific_examples"].v[key].v,
                                         IF AbsentOrNull(ex.v, key) THEN <<>>
                                         ELSE KeptEntries("strengths", ex.v[key].v))

\* C13: when the payload's mode is present and non-empty the validator raises
\* if it is not a string and otherwise returns it lower-cased; a payload
\* without mode is not rejected for that and the result has no mode either.
C13_Mode ==
    (req.op = "validate" /\ resp.op = "validate" /\ req.payload.t = "map")
    => LET p == req.payload.v
       IN /\ ("mode" \in DOMAIN p /\ Truthy(p["mode"]) /\ p["mode"].t # "str")
             => ValidationError(resp)
          /\ ("mode" \in DOMAIN p /\ Truthy(p["mode"]) /\ p["mode"].t = "str"
              /\ resp.kind = "ok")
             => /\ resp.body["mode"].t = "str"
                /\ Len(resp.body["mode"].v) = Len(p["mode"].v)
                /\ \A i \in 1..Len(p["mode"].v) :
                       resp.body["mode"].v[i] = LowerChar(p["mode"].v[i])
                /\ resp.body["mode"].v \notin {<<"T", "O", "E", "F", "L">>,
                                               <<"t", "O", "e", "f", "l">>}
          /\ "mode" \notin DOMAIN p
             => /\ resp.kind = "ok" => "mode" \notin DOMAIN resp.body
                /\ (DOMAIN p = {} \/ (DOMAIN p = {"criterion_scores"}
                                      /\ p["criterion_scores"].t \in {"null", "map"}))
                   => resp.kind = "ok"

\* The mode TOEFL returned as toefl.
C13_Witness ==
    /\ req.op = "validate"
    /\ resp.kind = "ok"
    /\ req.payload.t = "map"
    /\ "mode" \in DOMAIN req.payload.v
    /\ req.payload.v["mode"].t = "str"
    /\ req.payload.v["mode"].v = <<"T", "O", "E", "F", "L">>
    /\ resp.body["mode"].t = "str"
    /\ resp.body["mode"].v = <<"t", "o", "e", "f", "l">>

(***************************************************************************)
(* Properties of the sanitizer.                                             *)
(***************************************************************************)

\* C14: the sanitizer is idempotent: sanitizing its own result returns that
\* result, also for texts that begin or end with several fences or with
\* fences of both styles.
C14_Idempotent ==
    (req.op = "sanitize" /\ req.pass = 2) => resp.body.text = req.text

\* The first application's answer for a text built around a body.
WrappedAnswer(forms) ==
    /\ req.op = "sanitize"
    /\ req.pass = 1
    /\ resp.op = "sanitize"
    /\ req.form \in forms

\* C15 as stated: for a body without a fence the sanitizer returns the
\* trimmed body for the body in whitespace, for the body in a fence with an
\* optional label and whitespace on both sides, and for the body inline
\* between two fences.
C15_RoundTrip ==
    WrappedAnswer({"bare", "fenced", "inline"}) => resp.body.text = Strip(req.body)

\* The body without the label characters it begins with.
Unlabelled(body) == DropWhile(LabelChars, body)

\* C15: for a body without a fence the sanitizer returns the trimmed body for
\* the body in whitespace and for the body in a fence with an optional label
\* and whitespace on both sides; for the body inline between two fences it
\* returns the trimmed body without the label characters the body begins
\* with, which is the trimmed body when the body begins with none.
C15_RoundTripUnlabelled ==
    /\ WrappedAnswer({"bare", "fenced"}) => resp.body.text = Strip(req.body)
    /\ WrappedAnswer({"inline"})
       => /\ resp.body.text = Strip(Unlabelled(req.body))
          /\ (req.body = <<>> \/ Head(req.body) \notin LabelChars)
             => resp.body.text = Strip(req.body)

\* A document behind a label, whitespace and a tilde fence, returned bare.
C15_Witness ==
    /\ WrappedAnswer({"fenced"})
    /\ StartsWith(req.text, TILDES \o <<"J", "1", "\n">>)
    /\ req.body = <<" ", DocEmpty, "\n">>
    /\ resp.body.text = <<DocEmpty>>

\* What removing at most one leading fence (with label and whitespace) and
\* at most one trailing fence, of the same style when both go, can leave.
OneFenceResults(text) ==
    LET t == Strip(text)
    IN {t}
       \cup {Strip(strip_prefix(t, f)) : f \in Fences}
       \cup {Strip(strip_suffix(t, f)) : f \in Fences}
       \cup {Strip(strip_suffix(strip_prefix(t, f), f)) : f \in Fences}

\* C16: the sanitizer removes at most one leading fence, with its label and
\* the whitespace after it, and at most one trailing fence, of the leading
\* one's style, at the very start and end of the trimmed text; what is
\* between them, further fences included, is returned as it is, trimmed.
C16_OneFence ==
    (req.op = "sanitize" /\ resp.op = "sanitize")
    => resp.body.text \in OneFenceResults(req.text)

(***************************************************************************)
(* Properties of the registry.  A step of an accessor is one whose request  *)
(* in the next state is that accessor's call.                               *)
(***************************************************************************)

RegistryOps ==
    {"get_config", "get_system_prompt", "get_evaluation_prompt",
     "has_evaluation_config", "get_random_question"}

\* The definition has its system prompt and its questions, and every
\* question group has a prompt.
Complete(d) ==
    /\ d.system_prompt # Missing
    /\ d.questions # <<>>
    /\ \A i \in 1..Len(d.questions) : d.questions[i].prompts # <<>>

\* C17: the first access to the definition of a mode of the registry either
\* fails or returns a definition whose required fields are all present and
\* non-empty and whose question groups all have a prompt; it never returns
\* a definition with one of them missing or empty.
C17_FailsFast ==
    (/\ req.op = "get_config"
     /\ Lower(req.mode) \in RegistryModes
     /\ resp.kind = "ok"
     /\ resp.body.read)
        => Complete(resp.body.value)

\* What a response says the call returned or raised.
Outcome(r) ==
    IF r.kind = "ok" THEN Ok(r.body.value) ELSE Raise(r.body.exception)

\* The answers an accessor can give from the definition d alone.
AnswersFrom(op, d) ==
    CASE op = "get_config" -> {Ok(d)}
      [] op = "get_system_prompt" ->
           {IF d.system_prompt = Missing THEN Raise("ValueError")
            ELSE Ok(d.system_prompt)}
      [] op = "get_evaluation_prompt" ->
           {IF d.evaluation_prompt = Missing THEN Raise("ValueError")
            ELSE Ok(d.evaluation_prompt)}
      [] op = "has_evaluation_config" -> {Ok(d.evaluation # <<>>)}
      [] op = "get_random_question" ->
           IF d.questions = <<>> THEN {Raise("ValueError")}
           ELSE UNION { IF d.questions[i].prompts = <<>>
                        THEN {Raise("ValueError")}
                        ELSE { Ok([part |-> d.questions[i].part,
                                   prompt |-> d.questions[i].prompts[j]])
                               : j \in 1..Len(d.questions[i].prompts) }
                        : i \in 1..Len(d.questions) }

\* A call on a key that has a cached definition: the file is not opened,
\* the cache stays as it is and the answer is computed from the cached
\* definition, whatever the file holds by now.
CachedAccess ==
    (/\ req'.op \in RegistryOps
     /\ Lower(req'.mode) \in RegistryModes
     /\ cache[Lower(req'.mode)] # NotLoaded)
        => /\ ~resp'.body.read
           /\ cache' = cache
           /\ Outcome(resp') \in AnswersFrom(req'.op, cache[Lower(req'.mode)])

\* The first access to a key whose file parses: the file is read, its
\* definition is cached under the lower-cased key and answers the call.
FirstAccess ==
    (/\ req'.op \in RegistryOps
     /\ Lower(req'.mode) \in RegistryModes
     /\ cache[Lower(req'.mode)] = NotLoaded
     /\ source[Lower(req'.mode)] # Unparsable)
        => /\ resp'.body.read
           /\ cache' = [cache EXCEPT ![Lower(req'.mode)] =
                                        source[Lower(req'.mode)]]
           /\ Outcome(resp') \in AnswersFrom(req'.op, source[Lower(req'.mode)])

\* A call on a key the registry has no file for fails and caches nothing.
UnknownKeyFails ==
    (req'.op \in RegistryOps /\ Lower(req'.mode) \notin RegistryModes)
        => /\ Outcome(resp') = Raise("ValueError")
           /\ ~resp'.body.read
           /\ cache' = cache

\* A call whose file does not parse fails and leaves the cache as it was.
FailedParse ==
    (/\ req'.op \in RegistryOps
     /\ Lower(req'.mode) \in RegistryModes
     /\ cache[Lower(req'.mode)] = NotLoaded
     /\ source[Lower(req'.mode)] = Unparsable)
        => /\ Outcome(resp') = Raise("JSONDecodeError")
           /\ cache' = cache

\* No step replaces or drops a cached definition.
CachedOnce ==
    \A m \in RegistryModes : cache[m] # NotLoaded => cache'[m] = cache[m]

\* C18: in sequential use the registry reads and parses the backing file of
\* a mode at most once: after the first successful access every later
\* access, through any accessor, is answered from the cached definition
\* without opening the file, even if the file has changed; an access to an
\* unknown key fails and adds no cache entry; a failed parse leaves the
\* cache unchanged.
C18_Memoized ==
    [][/\ CachedAccess
       /\ FirstAccess
       /\ UnknownKeyFails
       /\ FailedParse
       /\ CachedOnce]_vars

\* An accessor answered from the cache a definition the file no longer holds.
C18_Witness ==
    /\ req.op \in RegistryOps
    /\ Lower(req.mode) \in RegistryModes
    /\ resp.kind = "ok"
    /\ ~resp.body.read
    /\ source[Lower(req.mode)] # cache[Lower(req.mode)]
    /\ req.op = "get_system_prompt"
    /\ resp.body.value = cache[Lower(req.mode)].system_prompt

(***************************************************************************)
(* Properties of the mode list.                                             *)
(***************************************************************************)

\* The default mode of the selection policy over the configured modes
\* `files`, of which `evaluation` support evaluation.
PolicyDefault(files, evaluation) ==
    IF toefl \in files \cap evaluation THEN toefl
    ELSE IF evaluation # {} THEN Sorted(evaluation)[1]
    ELSE Sorted(files)[1]

\* C19: the default mode is "toefl" if that key is configured and supports
\* evaluation; otherwise the first configured mode, in sorted order, that
\* supports evaluation; otherwise the first configured mode; with no mode
\* the selection fails.  For a configuration whose only mode is an
\* evaluation-capable "runtime", the modes response reports "runtime" as
\* the default mode.
C19_DefaultMode ==
    /\ (req.op = "import" /\ resp.op = "import")
          => IF req.files = {} THEN resp.kind = "exception"
             ELSE /\ resp.kind = "ok"
                  /\ resp.body.DEFAULT_MODE =
                         PolicyDefault(req.files, req.evaluation)
    /\ (/\ req.op = "get_modes"
        /\ req.files = {runtime}
        /\ req.evaluation = {runtime})
          => /\ resp.kind = "ok"
             /\ "default_mode" \in DOMAIN resp.body
             /\ resp.body.default_mode = runtime

(***************************************************************************)
(* Properties of the evaluation prompt.                                     *)
(***************************************************************************)

\* The record the registry answers with for a mode: the cached definition,
\* or the one its file holds when the mode has not been read yet.
RecordOf(m) == IF cache[m] # NotLoaded THEN cache[m] ELSE source[m]

\* C20: for every mode whose configuration record has an evaluation
\* section, a mode that exists only in the registry included, the
\* evaluation prompt built for the mode has that section's system prompt
\* as its system prompt and embeds that section's overall scale and
\* criterion template in its user prompt; no other mode's rubric is used.
C20_PromptFromConfig ==
    (/\ req.op = "create_evaluation_prompt"
     /\ req.mode \in RegistryModes
     /\ RecordOf(req.mode).evaluation # <<>>)
        => /\ resp.kind = "ok"
           /\ resp.body.system = RecordOf(req.mode).evaluation[1].system_prompt
           /\ resp.body.user.overall_scale =
                  RecordOf(req.mode).evaluation[1].overall_scale
           /\ resp.body.user.criterion_structure =
                  RecordOf(req.mode).evaluation[1].criterion_template
           /\ resp.body.user.mode_key = req.mode

\* The mode names a modes response lists.
ListedModes(body) == {body.modes[i] : i \in 1..Len(body.modes)}

\* C21: the modes response has one entry for every mode key the
\* configuration holds, a mode that is not in the built-in table included,
\* and carries a default mode and the set of evaluation modes, which are
\* exactly the modes that have an evaluation section.
C21_ModesListed ==
    (req.op = "get_modes" /\ req.files # {})
        => /\ resp.kind = "ok"
           /\ ListedModes(resp.body) = req.files
           /\ "default_mode" \in DOMAIN resp.body
           /\ "evaluation_modes" \in DOMAIN resp.body
           /\ resp.body.evaluation_modes = req.evaluation

(***************************************************************************)
(* Properties of the question bank.                                         *)
(***************************************************************************)

\* The prompt is one of the prompts of a group of d that is labelled part.
InBank(d, part, prompt) ==
    \E i \in 1..Len(d.questions) :
        /\ d.questions[i].part = part
        /\ \E j \in 1..Len(d.questions[i].prompts) :
               d.questions[i].prompts[j] = prompt

\* What the last call of get_random_question gave agrees with the cached
\* definition d of its mode.
PickedFrom(d) ==
    /\ resp.kind = "ok"
          => InBank(d, resp.body.value.part, resp.body.value.prompt)
    /\ resp.kind = "exception"
          => /\ resp.body.exception = "ValueError"
             /\ \/ d.questions = <<>>
                \/ \E i \in 1..Len(d.questions) : d.questions[i].prompts = <<>>
    /\ d.questions = <<>> => resp.kind = "exception"

\* Every group of the mode m is a possible choice of the next call: each
\* prompt of each group is a possible result, and so is the failure on a
\* group that has no prompt.
EveryGroupPossible(m) ==
    \A i \in 1..Len(cache[m].questions) :
        LET group == cache[m].questions[i]
        IN /\ \A j \in 1..Len(group.prompts) :
                  Ok([part |-> group.part, prompt |-> group.prompts[j]])
                      \in get_random_question(cache, m)
           /\ group.prompts = <<>>
                  => Raise("ValueError") \in get_random_question(cache, m)

\* C22: get_random_question on a mode with a question group returns a part
\* and a prompt where the prompt is in the prompt list of a group labelled
\* with the part; every group is a possible choice, whatever the number of
\* its prompts; the call fails when the mode has no group or the chosen
\* group has no prompt; it never returns a prompt outside the bank.
C22_PickQuestion ==
    /\ (/\ req.op = "get_random_question"
        /\ Lower(req.mode) \in RegistryModes
        /\ cache[Lower(req.mode)] # NotLoaded)
           => PickedFrom(cache[Lower(req.mode)])
    /\ \A m \in RegistryModes : cache[m] # NotLoaded => EveryGroupPossible(m)

\* A call on a mode of two groups, the first the larger, returned the one
\* prompt of the second group.
C22_Witness ==
    /\ req.op = "get_random_question"
    /\ Lower(req.mode) \in RegistryModes
    /\ cache[Lower(req.mode)] # NotLoaded
    /\ Len(cache[Lower(req.mode)].questions) = 2
    /\ Len(cache[Lower(req.mode)].questions[1].prompts) = 2
    /\ resp.kind = "ok"
    /\ resp.body.value.part = cache[Lower(req.mode)].questions[2].part
    /\ resp.body.value.prompt = cache[Lower(req.mode)].questions[2].prompts[1]

(***************************************************************************)
(* Further properties of the session manager.                               *)
(***************************************************************************)

\* The model call of a chat carries the persona prompt of the key's record:
\* the one the record held already, with the registry not accessed, or the
\* one read as the record was created by this chat.
SnapshotSent ==
    (req'.op = "chat" /\ modelLog' # <<>>)
    => /\ modelLog'[1].system = conversations'[ReqKey(req')].system_prompt
       /\ ReqKey(req') \in DOMAIN conversations
             => /\ modelLog'[1].system =
                      conversations[ReqKey(req')].system_prompt
                /\ cache' = cache
       /\ ReqKey(req') \notin DOMAIN conversations
             => get_system_prompt(cache, req'.mode) = Ok(modelLog'[1].system)

\* Only a successful first-question request on a key replaces the persona
\* prompt its record holds.
SnapshotKept ==
    \A key \in DOMAIN conversations :
        \/ /\ req'.op = "get_first_question"
           /\ ReqKey(req') = key
           /\ resp'.kind = "ok"
        \/ /\ key \in DOMAIN conversations'
           /\ conversations'[key].system_prompt = conversations[key].system_prompt

\* C23: the system prompt every chat of a session passes to the model is
\* the persona prompt captured when the session record was last created or
\* reset, by a first-question request or by implicit creation, even if the
\* configured persona prompt has changed or the registry was replaced since;
\* chat never reads the persona prompt again for a record that exists.
C23_PromptSnapshot == [][SnapshotSent /\ SnapshotKept]_vars

\* A chat sent the captured prompt after the mode's file was rewritten with
\* another persona prompt and the registry replaced.
C23_Witness ==
    /\ req.op = "chat"
    /\ modelLog # <<>>
    /\ modelLog[1].system = conversations[ReqKey(req)].system_prompt
    /\ cache[req.mode] = NotLoaded
    /\ source[req.mode].system_prompt # modelLog[1].system

\* C28: when the model call of a chat fails, the session record is as it
\* was before the chat: no user turn was added, the pending question is
\* still set and the remaining pairs are unchanged, so the same chat sent
\* again acts as if the failed one had never been.
C28_FailedCallRollsBack ==
    [][(req'.op = "chat" /\ modelLog' # <<>> /\ modelLog'[1].raised # None)
       => /\ HistoryOf(conversations', ReqKey(req')) =
                HistoryOf(conversations, ReqKey(req'))
          /\ PendingOf(conversations', ReqKey(req')) =
                PendingOf(conversations, ReqKey(req'))]_vars

\* The turns alternate, user first and user last.
Alternates(messages) ==
    /\ messages # <<>>
    /\ \A i \in 1..Len(messages) :
          messages[i].role = IF i % 2 = 1 THEN "user" ELSE "assistant"
    /\ Len(messages) % 2 = 1

AssistantTurns(history) ==
    Len(SelectSeq(history, LAMBDA turn : turn.role = "assistant"))

\* C29: in sequential execution the message list every chat sends to the
\* model alternates user and assistant turns strictly, from a user turn to
\* a user turn, and the history stored after every completed chat holds as
\* many assistant turns as user turns.
C29_Alternation ==
    /\ (req.op = "chat" /\ modelLog # <<>>)
          => Alternates(modelLog[1].messages)
    /\ (req.op = "chat" /\ resp.kind = "ok")
          => AssistantTurns(conversations[ReqKey(req)].history) =
                UserTurns(conversations[ReqKey(req)].history)

(***************************************************************************)
(* Properties of the validator's argument.                                  *)
(***************************************************************************)

\* Two JSON values are equal: the same type and the same content, key by
\* key and entry by entry.
RECURSIVE SameJson(_, _)
SameJson(a, b) ==
    /\ a.t = b.t
    /\ CASE a.t = "null" -> TRUE
         [] a.t = "map" ->
              /\ DOMAIN a.v = DOMAIN b.v
              /\ \A k \in DOMAIN a.v : SameJson(a.v[k], b.v[k])
         [] a.t = "list" ->
              /\ Len(a.v) = Len(b.v)
              /\ \A i \in 1..Len(a.v) : SameJson(a.v[i], b.v[i])
         [] OTHER -> a.v = b.v

\* C30: validate_evaluation does not modify its input: once it has
\* returned or raised, the mapping passed and every value nested in it, the
\* specific_examples mapping and its good and needs_work lists included,
\* equal what they were before the call.
C30_InputUnchanged ==
    (req.op = "validate" /\ resp.op = "validate")
        => SameJson(req.argument, req.payload)

(***************************************************************************)
(* Properties of the session store under several keys.                      *)
(***************************************************************************)

\* A first-question or chat request leaves the record of every key but its
\* own as it was, and adds no record under another key.
OtherKeysUntouched ==
    (req'.op \in {"chat", "get_first_question"})
    => /\ \A key \in DOMAIN conversations :
             key # ReqKey(req')
             => /\ key \in DOMAIN conversations'
                /\ conversations'[key] = conversations[key]
       /\ DOMAIN conversations' \subseteq DOMAIN conversations \cup {ReqKey(req')}

\* A chat is answered with the limit exactly when its own key holds five
\* user turns, whatever the other keys hold.
OwnLimit ==
    ValidChat(req')
    => (IsLimitResponse(resp')
          <=> UserTurns(HistoryOf(conversations, ReqKey(req'))) >= 5)

\* A chat that calls the model sends the history of its own key and the
\* turn it appends, labelled with its own key's pending question.
OwnHistory ==
    (ValidChat(req') /\ modelLog' # <<>>)
    => LET key == ReqKey(req')
       IN /\ Len(modelLog'[1].messages) = Len(HistoryOf(conversations, key)) + 1
          /\ \A i \in 1..Len(HistoryOf(conversations, key)) :
                modelLog'[1].messages[i] = HistoryOf(conversations, key)[i]
          /\ modelLog'[1].messages[Len(modelLog'[1].messages)].content =
                IF PendingOf(conversations, key) # None
                THEN <<"Interviewer question: ", PendingOf(conversations, key),
                       "\nCandidate answer: ", req'.message>>
                ELSE <<req'.message>>

HasParsed(t) == req[t].data # NotLoaded

\* No two threads have parsed the file of one key.
ParsedOnce ==
    \A t1 \in Threads, t2 \in Threads :
        (t1 # t2 /\ Lower(req[t1].mode) = Lower(req[t2].mode))
        => ~(HasParsed(t1) /\ HasParsed(t2))

\* The threads that were given the definition of one key were given the
\* same definition.
SameObserved ==
    \A t1 \in Threads, t2 \in Threads :
        (/\ Lower(req[t1].mode) = Lower(req[t2].mode)
         /\ resp[t1].kind = "ok"
         /\ resp[t2].kind = "ok")
        => resp[t1].body.value = resp[t2].body.value

\* C24: with two or more threads accessing one mode that is not loaded
\* yet, the cache entry of the mode is populated at most once: the mode's
\* file is never parsed twice, and all threads are given the same cached
\* definition even if the file changes between their reads.
C24_LoadOnce ==
    (\A t \in Threads : req[t].op = "load_config")
        => ParsedOnce /\ SameObserved

\* The thread t makes its model call in this step.
Calls(t) == req[t].pc = "call" /\ req'[t].pc # "call"

\* The request of a model call carries the whole history its key holds at
\* the time of the call.
CallSendsStored ==
    \A t \in Threads :
        Calls(t)
        => LET sent == modelLog'[Len(modelLog')].messages
               history == conversations[FrameKey(t)].history
           IN /\ Len(modelLog') = Len(modelLog) + 1
              /\ Len(sent) = Len(history)
              /\ \A i \in 1..Len(history) : sent[i] = history[i]

\* The thread u has appended its user turn and not yet a reply to it.
Unanswered(u) == req[u].pc \in {"call", "reply"}

\* A model call made while another request on the same key has its user
\* turn unanswered carries that user turn.
UnansweredIncluded ==
    \A t \in Threads, u \in Threads :
        (Calls(t) /\ u # t /\ FrameKey(u) = FrameKey(t) /\ Unanswered(u))
        => LET sent == modelLog'[Len(modelLog')].messages
           IN \E i \in 1..Len(sent) :
                 /\ sent[i].role = "user"
                 /\ sent[i].content = user_content(req[u].pending_question,
                                                   req[u].message)

\* Every step leaves a history as it is or appends one turn to it, in the
\* order the threads reach their appends.
AppendsOnly ==
    \A key \in DOMAIN conversations :
        /\ Len(conversations'[key].history)
              \in {Len(conversations[key].history),
                   Len(conversations[key].history) + 1}
        /\ \A i \in 1..Len(conversations[key].history) :
              conversations'[key].history[i] = conversations[key].history[i]

\* C25: two simultaneous chat requests for one key can interleave their
\* appends to the history, so that the stored history has an inconsistent
\* turn order, such as two user turns followed by two assistant turns, and
\* the model request of one carries the unanswered user turn of the other:
\* each request appends to, and sends, the one history the key holds.
C25_InterleavedAppends ==
    [][CallSendsStored /\ UnansweredIncluded /\ AppendsOnly]_vars

\* Both requests were answered; the history of their key ends with two user
\* turns and two assistant turns, and the second model call carried both
\* user turns.
C25_Witness ==
    LET history == conversations[FrameKey(1)].history
        n == Len(history)
    IN /\ FrameKey(1) = FrameKey(2)
       /\ \A t \in Threads : req[t].pc = "done" /\ IsReplyResponse(resp[t])
       /\ n >= 4
       /\ history[n - 3].role = "user"
       /\ history[n - 2].role = "user"
       /\ history[n - 1].role = "assistant"
       /\ history[n].role = "assistant"
       /\ Len(modelLog) = 2
       /\ LET sent == modelLog[2].messages
          IN /\ Len(sent) >= 2
             /\ sent[Len(sent)].role = "user"
             /\ sent[Len(sent) - 1].role = "user"

\* C27: also when several chat requests for one key run concurrently, the
\* stored history of the key never holds more than 5 user turns, and no
\* model call is made for a session that holds 5 user turns already.
C27_CapUnderConcurrency ==
    /\ \A key \in DOMAIN conversations :
          UserTurns(conversations[key].history) <= MAX_QA_PAIRS
    /\ \A i \in 1..Len(modelLog) :
          UserTurns(modelLog[i].messages) <= MAX_QA_PAIRS

====
